---- MODULE Spec2Model ----
(***************************************************************************)
(* Bank-statement reconciliation of the YNAB MCP server (ynab-client.ts):  *)
(*   - YNABClient.matchBankTransactions, the greedy fuzzy matcher;         *)
(*   - YNABClient.reconcileAccountWithAdjustment, the reconcile workflow.  *)
(*                                                                         *)
(* Conventions.  A calendar date "YYYY-MM-DD" is its day number; JavaScript *)
(* parses it as UTC midnight, so its time value is day * DayMs.  setDate    *)
(* and getDate work in the host's time zone: hostZone says whether the host *)
(* keeps UTC or changes its clock by an hour on TransitionDay.              *)
(* A bank amount is a decimal number of dollars, held here in tenths of a   *)
(* milliunit (1 dollar = 10000) so that Math.round(amount * 1000) rounds.   *)
(* A string is a sequence of one-character strings.                         *)
(***************************************************************************)
EXTENDS Integers, Sequences, FiniteSets, TLC

VARIABLES
    \* ---- matchBankTransactions: inputs and environment
    bankTransactions,        \* the caller's list (argument bankTransactions)
    tolerance,               \* argument tolerance (days)
    hostZone,                \* the time zone of the host the server runs on
    ledger,                  \* the account's transactions held by the remote ledger, in fetch order
    \* ---- matchBankTransactions: locals
    pc,                      \* "start" | "loop" | "done"
    ynabTransactions,        \* the candidate list after the date-window filter
    sortedBankTransactions,  \* [...bankTransactions].sort(...), as positions of the caller's list
    idx,                     \* position of the outer for-loop in sortedBankTransactions
    matched,
    usedYnabIds,
    unmatchedBank,
    unmatchedYNAB,
    summary,
    outcome,                 \* "none" | "returned" | "RangeError" | "LedgerError" (rejected)
    calls,                   \* the ledger calls issued so far, in order
    bankAtCall,              \* the caller's list as it was when the call was made
    \* ---- reconcileAccountWithAdjustment
    rpc,                     \* position of the reconcile workflow
    rin,                     \* its arguments
    rledger,                 \* the remote ledger: the account's transactions and payees
    rledgerAtCall,           \* the remote ledger as it was when the call was made
    rloc,                    \* its locals
    rcalls,                  \* the ledger calls it issued so far, in order
    result,                  \* what it returned or threw
    \* ---- two invocations of reconcileAccountWithAdjustment on one account
    inv,                     \* per invocation: its position, locals, calls and result
    \* ---- the status tools and bulkUpdateTransactionStatus
    stool,                   \* the tool that was called
    sargs,                   \* its arguments
    sledger,                 \* the remote ledger: the transactions of the budget
    spc,                     \* position of the tool handler
    supdates,                \* the updates handed to bulkUpdateTransactionStatus
    sidx,                    \* position of its for-loop in updates
    sresults,                \* its results list
    scalls,                  \* the ledger calls issued so far, in order
    sreport                  \* what the tool reported

mvars == <<bankTransactions, tolerance, hostZone, ledger, pc, ynabTransactions, sortedBankTransactions,
           idx, matched, usedYnabIds, unmatchedBank, unmatchedYNAB, summary, outcome, calls,
           bankAtCall>>
rvars == <<rpc, rin, rledger, rledgerAtCall, rloc, rcalls, result>>
tvars == <<inv>>
svars == <<stool, sargs, sledger, spc, supdates, sidx, sresults, scalls, sreport>>
vars == <<mvars, rvars, tvars, svars>>

----------------------------------------------------------------------------
(* Bounds of the model *)

MaxBank == 2        \* longest bank list
MaxLedger == 2      \* most transactions in the ledger account

(* Program constants *)

DayMs == 86400000           \* 1000 * 60 * 60 * 24
AmountSlack == 1000         \* amountMatches(.., .., 1000): +-$1 in milliunits
DefaultTolerance == 3       \* tolerance: number = 3

----------------------------------------------------------------------------
(* Strings *)

S_Acme == <<"A","c","m","e">>
S_AcmeStore == <<"A","c","m","e"," ","S","t","o","r","e">>
S_acmestoreSp == <<"a","c","m","e"," ","s","t","o","r","e"," ">>
S_AcmeStoreInc == <<"A","c","m","e"," ","S","t","o","r","e"," ","I","n","c">>
S_StoreAcme == <<"S","t","o","r","e"," ","A","c","m","e">>
S_Blank == <<" ">>
S_Empty == <<>>

NoPayee == [some |-> FALSE, s |-> <<>>]          \* undefined / null
Str(s) == [some |-> TRUE, s |-> s]

UpperCase == <<"A","B","C","D","E","F","G","H","I","J","K","L","M",
               "N","O","P","Q","R","S","T","U","V","W","X","Y","Z">>
LowerCase == <<"a","b","c","d","e","f","g","h","i","j","k","l","m",
               "n","o","p","q","r","s","t","u","v","w","x","y","z">>
WhiteSpace == {" ", "\t", "\n"}

ToLowerChar(c) ==
    IF \E i \in 1..Len(UpperCase) : UpperCase[i] = c
    THEN LowerCase[CHOOSE i \in 1..Len(UpperCase) : UpperCase[i] = c]
    ELSE c

\* String.prototype.toLowerCase
ToLowerCase(s) == [i \in 1..Len(s) |-> ToLowerChar(s[i])]

\* String.prototype.trim
Trim(s) ==
    LET nonWs == {i \in 1..Len(s) : s[i] \notin WhiteSpace}
    IN  IF nonWs = {} THEN <<>>
        ELSE SubSeq(s, CHOOSE i \in nonWs : \A j \in nonWs : i <= j,
                       CHOOSE i \in nonWs : \A j \in nonWs : i >= j)

RECURSIVE SplitFrom(_, _, _, _)
SplitFrom(s, i, cur, out) ==
    IF i > Len(s) THEN Append(out, cur)
    ELSE IF s[i] \in WhiteSpace
         THEN IF i > 1 /\ s[i-1] \in WhiteSpace
              THEN SplitFrom(s, i + 1, cur, out)
              ELSE SplitFrom(s, i + 1, <<>>, Append(out, cur))
         ELSE SplitFrom(s, i + 1, Append(cur, s[i]), out)

\* String.prototype.split(/\s+/)
SplitWords(s) == SplitFrom(s, 1, <<>>, <<>>)

\* String.prototype.includes
Includes(hay, needle) ==
    \E k \in 0..(Len(hay) - Len(needle)) : SubSeq(hay, k + 1, k + Len(needle)) = needle

Max(a, b) == IF a >= b THEN a ELSE b
Abs(x) == IF x < 0 THEN -x ELSE x

----------------------------------------------------------------------------
(* The helper functions of matchBankTransactions *)

\* new Date(date).getTime() of a date-only ISO string
TimeOf(day) == day * DayMs

\* Math.ceil(x / DayMs) for x >= 0
CeilDays(ms) == (ms + DayMs - 1) \div DayMs

dateDifference(date1, date2) == CeilDays(Abs(TimeOf(date2) - TimeOf(date1)))

\* Math.abs is lost
amountMatchesNoAbs(amount1, amount2, tol) == amount1 - amount2 <= tol

amountMatches(amount1, amount2, tol) == Abs(amount1 - amount2) <= tol

\* Math.round(bankTx.amount * 1000): to the nearest integer, a half towards +infinity
BankAmountMilliunits(amount) == (amount + 5) \div 10

\* A similarity is the fraction num / den, den >= 1
Frac(n, d) == [num |-> n, den |-> d]
IsOne(f) == f.num = f.den
GtHalf(f) == 2 * f.num > f.den

\* the division is by the count of bank words alone
payeeSimilarityOwnCount(payee1, payee2) ==
    IF ~payee1.some \/ payee1.s = <<>> \/ ~payee2.some \/ payee2.s = <<>> THEN Frac(0, 1)
    ELSE LET p1 == Trim(ToLowerCase(payee1.s))
             p2 == Trim(ToLowerCase(payee2.s))
             words1 == SplitWords(p1)
             words2 == SplitWords(p2)
             hits == {i \in 1..Len(words1) :
                        \E j \in 1..Len(words2) :
                            Includes(words2[j], words1[i]) \/ Includes(words1[i], words2[j])}
         IN  IF p1 = p2 THEN Frac(1, 1)
             ELSE Frac(Cardinality(hits), Len(words1))

payeeSimilarity(payee1, payee2) ==
    IF ~payee1.some \/ payee1.s = <<>> \/ ~payee2.some \/ payee2.s = <<>> THEN Frac(0, 1)
    ELSE LET p1 == Trim(ToLowerCase(payee1.s))
             p2 == Trim(ToLowerCase(payee2.s))
             words1 == SplitWords(p1)
             words2 == SplitWords(p2)
             hits == {i \in 1..Len(words1) :
                        \E j \in 1..Len(words2) :
                            Includes(words2[j], words1[i]) \/ Includes(words1[i], words2[j])}
         IN  IF p1 = p2 THEN Frac(1, 1)
             ELSE Frac(Cardinality(hits), Max(Len(words1), Len(words2)))

\* ynabTx.payee_name || undefined
OrUndefined(p) == IF p.some /\ p.s # <<>> THEN p ELSE NoPayee

confidenceOrder(c) ==
    CASE c = "exact" -> 4 [] c = "high" -> 3 [] c = "medium" -> 2 [] c = "low" -> 1

NoTx == [id |-> 0, date |-> 0, amount |-> 0, payee_name |-> NoPayee]

\* payeeSim >= 0.5 in place of payeeSim > 0.5
ConfidenceGeHalf(exactAmountMatch, daysDiff, payeeSim, tol) ==
    IF exactAmountMatch /\ daysDiff = 0 /\ IsOne(payeeSim) THEN "exact"
    ELSE IF exactAmountMatch /\ daysDiff <= 1 /\ 2 * payeeSim.num >= payeeSim.den THEN "high"
    ELSE IF exactAmountMatch /\ daysDiff <= tol THEN "medium"
    ELSE "low"

\* Determine confidence level (the if / else-if chain)
Confidence(exactAmountMatch, daysDiff, payeeSim, tol) ==
    IF exactAmountMatch /\ daysDiff = 0 /\ IsOne(payeeSim) THEN "exact"
    ELSE IF exactAmountMatch /\ daysDiff <= 1 /\ GtHalf(payeeSim) THEN "high"
    ELSE IF exactAmountMatch /\ daysDiff <= tol THEN "medium"
    ELSE "low"

\* The date gate: a candidate is skipped when daysDiff > tolerance
DateGate(daysDiff, tol) == ~(daysDiff > tol)

\* The amount gate: exactAmountMatch or closeAmountMatch, else skipped
AmountGate(bankAmountMilliunits, ynabAmount) ==
    \/ bankAmountMilliunits = ynabAmount
    \/ amountMatches(bankAmountMilliunits, ynabAmount, AmountSlack)

\* The reasons pushed for a candidate; the amounts interpolated into the
\* "Amount within $1 (Bank: .., YNAB: ..)" text are left out
Reasons(bankTx, ynabTx, daysDiff, payeeSim) ==
    <<IF BankAmountMilliunits(bankTx.amount) = ynabTx.amount
      THEN "Exact amount match" ELSE "Amount within $1">>
    \o <<IF daysDiff = 0 THEN "Same date"
         ELSE IF daysDiff = 1 THEN "Date within 1 day"
         ELSE "Date within " \o ToString(daysDiff) \o " days">>
    \o (IF IsOne(payeeSim) THEN <<"Exact payee match">>
        ELSE IF GtHalf(payeeSim) THEN <<"Similar payee name">>
        ELSE <<>>)

\* the used-id check is lost
NeverConsumed(id, used) == FALSE

\* if (usedYnabIds.has(ynabTx.id)) continue
Consumed(id, used) == id \in used

\* the comparison of confidence levels is lost: the first eligible candidate stays
BetterFirstOnly(best, confidence) == ~best.found

\* a candidate of the same level replaces the best so far
BetterOrEqual(best, confidence) ==
    ~best.found \/ confidenceOrder(confidence) >= confidenceOrder(best.confidence)

\* Update best match if this is better
Better(best, confidence) ==
    ~best.found \/ confidenceOrder(confidence) > confidenceOrder(best.confidence)

\* One pass of the inner loop body for candidate ynabTx; best is the running
\* (bestMatch, bestConfidence, bestReasons)
Consider(bankTx, ynabTx, used, tol, best) ==
    LET daysDiff == dateDifference(bankTx.date, ynabTx.date)
        bankAmountMilliunits == BankAmountMilliunits(bankTx.amount)
        payeeSim == payeeSimilarity(bankTx.payee, OrUndefined(ynabTx.payee_name))
        confidence == Confidence(bankAmountMilliunits = ynabTx.amount, daysDiff, payeeSim, tol)
    IN  IF Consumed(ynabTx.id, used) THEN best
        ELSE IF ~DateGate(daysDiff, tol) THEN best
        ELSE IF ~AmountGate(bankAmountMilliunits, ynabTx.amount) THEN best
        ELSE IF Better(best, confidence)
             THEN [found |-> TRUE, tx |-> ynabTx, confidence |-> confidence,
                   reasons |-> Reasons(bankTx, ynabTx, daysDiff, payeeSim)]
             ELSE best

RECURSIVE ScanCandidates(_, _, _, _, _, _)
ScanCandidates(bankTx, cands, used, tol, i, best) ==
    IF i > Len(cands) THEN best
    ELSE ScanCandidates(bankTx, cands, used, tol, i + 1,
                        Consider(bankTx, cands[i], used, tol, best))

\* The inner for-loop over ynabTransactions for one bank transaction
BestMatch(bankTx, cands, used, tol) ==
    ScanCandidates(bankTx, cands, used, tol, 1,
                   [found |-> FALSE, tx |-> NoTx, confidence |-> "low", reasons |-> <<>>])

InsertBySignedAmount(bank, acc, i) ==
    LET k == Cardinality({j \in 1..Len(acc) : bank[acc[j]].amount >= bank[i].amount})
    IN  SubSeq(acc, 1, k) \o <<i>> \o SubSeq(acc, k + 1, Len(acc))

\* Array.prototype.sort is stable: a new element goes after every element whose
\* absolute amount is not smaller
InsertByAbsAmount(bank, acc, i) ==
    LET k == Cardinality({j \in 1..Len(acc) :
                            Abs(bank[acc[j]].amount) >= Abs(bank[i].amount)})
    IN  SubSeq(acc, 1, k) \o <<i>> \o SubSeq(acc, k + 1, Len(acc))

RECURSIVE SortFrom(_, _, _)
SortFrom(bank, i, acc) ==
    IF i > Len(bank) THEN acc ELSE SortFrom(bank, i + 1, InsertByAbsAmount(bank, acc, i))

\* [...bankTransactions].sort((a, b) => Math.abs(b.amount) - Math.abs(a.amount)),
\* as the positions of the caller's list in processing order
SortByAbsAmountDesc(bank) == SortFrom(bank, 1, <<>>)

\* Array.prototype.sort applied to the caller's list itself
SortedInPlace(bank) == [i \in 1..Len(bank) |-> bank[SortByAbsAmountDesc(bank)[i]]]

\* The spread [...bankTransactions] sorts a copy: the caller's list stays as it is
CallerListAfterSort(bank) == bank

\* the push is lost
PushDropped(list, ix) == list

\* unmatchedBank.push(bankTx)
PushUnmatched(list, ix) == Append(list, ix)

BankDays(bank) == {bank[i].date : i \in 1..Len(bank)}
MinDay(bank) == CHOOSE d \in BankDays(bank) : \A e \in BankDays(bank) : d <= e
MaxDay(bank) == CHOOSE d \in BankDays(bank) : \A e \in BankDays(bank) : d >= e

HourMs == 3600000           \* the clock change of a daylight-saving transition
TransitionDay == 5          \* the day from which the host's changed clock applies

HostZones == {"UTC", "SpringForward", "FallBack"}

\* The host's UTC offset (local time - UTC) on a day, against its offset
\* before the transition
HostOffset(zone, day) ==
    CASE zone = "UTC" -> 0
      [] zone = "SpringForward" -> IF day >= TransitionDay THEN HourMs ELSE 0
      [] zone = "FallBack" -> IF day >= TransitionDay THEN -HourMs ELSE 0

\* d.setDate(d.getDate() + delta) for d at UTC midnight of day, as a time
\* value: the local wall-clock time is kept, so the instant moves by the
\* change of the host's offset
SetDate(day, delta, zone) ==
    TimeOf(day + delta) - (HostOffset(zone, day + delta) - HostOffset(zone, day))

\* minDate.setDate(minDate.getDate() - tolerance), as a time value
MinDate(bank, tol, zone) == SetDate(MinDay(bank), -tol, zone)
\* maxDate.setDate(maxDate.getDate() + tolerance), as a time value
MaxDate(bank, tol, zone) == SetDate(MaxDay(bank), tol, zone)

\* minDate.toISOString().split('T')[0], as a day
SinceDate(bank, tol, zone) == MinDate(bank, tol, zone) \div DayMs

\* getAccountTransactions(.., {since_date}): the ledger answers with the
\* transactions dated on or after since_date, in its order
getAccountTransactions(txs, since) == SelectSeq(txs, LAMBDA t : t.date >= since)

\* .filter(t => new Date(t.date) <= maxDate)
UpToMaxDate(txs, maxDate) == SelectSeq(txs, LAMBDA t : TimeOf(t.date) <= maxDate)

\* matched.length / bankTransactions.length, guarded against an empty list
MatchRate(nMatched, nBank) == IF nBank > 0 THEN Frac(nMatched, nBank) ELSE Frac(0, 1)

----------------------------------------------------------------------------
(* Inputs of the model *)

BankCatalogue ==
    { [date |-> 3, amount |-> -450000, payee |-> Str(S_AcmeStore)],     \* -45.00
      [date |-> 3, amount |-> -460005, payee |-> Str(S_acmestoreSp)],   \* -46.0005
      [date |-> 4, amount |-> -450000, payee |-> Str(S_Acme)],          \* -45.00
      [date |-> 4, amount |-> 450000,  payee |-> NoPayee],              \* +45.00
      [date |-> 3, amount |-> -460010, payee |-> Str(S_Empty)] }        \* -46.001

LedgerCatalogue ==
    { [date |-> 3, amount |-> -45000, payee_name |-> Str(S_AcmeStore)],
      [date |-> 4, amount |-> -45000, payee_name |-> Str(S_AcmeStoreInc)],
      [date |-> 3, amount |-> -46001, payee_name |-> Str(S_Empty)],
      [date |-> 3, amount |-> -45000, payee_name |-> Str(S_StoreAcme)],
      [date |-> 1, amount |-> 45000,  payee_name |-> Str(S_Blank)] }

Tolerances == {0, DefaultTolerance}

SeqsUpTo(S, n) == UNION {[1..k -> S] : k \in 0..n}

\* The ledger gives every transaction its own id
WithIds(txs) ==
    [i \in 1..Len(txs) |-> [id |-> i, date |-> txs[i].date, amount |-> txs[i].amount,
                            payee_name |-> txs[i].payee_name]]

NoSummary == [totalBankTransactions |-> 0, totalYNABTransactions |-> 0,
              matchedCount |-> 0, matchRate |-> Frac(0, 1)]

RIdle ==
    /\ rpc = "idle"
    /\ rin = <<>>
    /\ rledger = <<>>
    /\ rledgerAtCall = <<>>
    /\ rloc = <<>>
    /\ rcalls = <<>>
    /\ result = <<>>

TIdle == inv = <<>>

SIdle ==
    /\ stool = "none"
    /\ sargs = <<>>
    /\ sledger = <<>>
    /\ spc = "idle"
    /\ supdates = <<>>
    /\ sidx = 1
    /\ sresults = <<>>
    /\ scalls = <<>>
    /\ sreport = <<>>

MatchInit ==
    /\ bankTransactions \in SeqsUpTo(BankCatalogue, MaxBank)
    /\ bankAtCall = bankTransactions
    /\ tolerance \in Tolerances
    /\ hostZone = "UTC"
    /\ ledger \in {WithIds(l) : l \in SeqsUpTo(LedgerCatalogue, MaxLedger)}
    /\ pc = "start"
    /\ ynabTransactions = <<>>
    /\ sortedBankTransactions = <<>>
    /\ idx = 1
    /\ matched = <<>>
    /\ usedYnabIds = {}
    /\ unmatchedBank = <<>>
    /\ unmatchedYNAB = <<>>
    /\ summary = NoSummary
    /\ outcome = "none"
    /\ calls = <<>>
    /\ RIdle
    /\ TIdle
    /\ SIdle

----------------------------------------------------------------------------
(* matchBankTransactions *)

\* An empty list: Math.min() is Infinity, minDate is an Invalid Date and
\* minDate.toISOString() throws a RangeError, before any ledger call
DateRangeThrows ==
    /\ pc = "start"
    /\ Len(bankTransactions) = 0
    /\ pc' = "done"
    /\ outcome' = "RangeError"
    /\ UNCHANGED <<bankTransactions, tolerance, hostZone, ledger, ynabTransactions,
                   sortedBankTransactions, idx, matched, usedYnabIds, unmatchedBank,
                   unmatchedYNAB, summary, calls, bankAtCall>>
    /\ UNCHANGED <<rvars, tvars, svars>>

\* await this.getAccountTransactions(...) rejects: the matcher rejects with it
FetchFails ==
    /\ pc = "start"
    /\ Len(bankTransactions) > 0
    /\ calls' = Append(calls, "getAccountTransactions")
    /\ pc' = "done"
    /\ outcome' = "LedgerError"
    /\ UNCHANGED <<bankTransactions, tolerance, hostZone, ledger, ynabTransactions,
                   sortedBankTransactions, idx, matched, usedYnabIds, unmatchedBank,
                   unmatchedYNAB, summary, bankAtCall>>
    /\ UNCHANGED <<rvars, tvars, svars>>

\* The date range, the fetch, the filter and the sort
Fetch ==
    /\ pc = "start"
    /\ Len(bankTransactions) > 0
    /\ calls' = Append(calls, "getAccountTransactions")
    /\ ynabTransactions' =
          UpToMaxDate(getAccountTransactions(ledger,
                                             SinceDate(bankTransactions, tolerance, hostZone)),
                      MaxDate(bankTransactions, tolerance, hostZone))
    /\ sortedBankTransactions' = SortByAbsAmountDesc(bankTransactions)
    /\ bankTransactions' = CallerListAfterSort(bankTransactions)
    /\ idx' = 1
    /\ pc' = "loop"
    /\ UNCHANGED <<tolerance, hostZone, ledger, matched, usedYnabIds, unmatchedBank,
                   unmatchedYNAB, summary, outcome, bankAtCall>>
    /\ UNCHANGED <<rvars, tvars, svars>>

\* One iteration of the outer loop: for (const bankTx of sortedBankTransactions)
MatchOne ==
    /\ pc = "loop"
    /\ idx <= Len(sortedBankTransactions)
    /\ LET ix == sortedBankTransactions[idx]
           bankTx == bankTransactions[ix]
           best == BestMatch(bankTx, ynabTransactions, usedYnabIds, tolerance)
       IN  IF best.found
           THEN /\ matched' = Append(matched,
                                     [bankIx |-> ix, bankTransaction |-> bankTx,
                                      ynabTransaction |-> best.tx,
                                      matchConfidence |-> best.confidence,
                                      matchReasons |-> best.reasons])
                /\ usedYnabIds' = usedYnabIds \cup {best.tx.id}
                /\ UNCHANGED unmatchedBank
           ELSE /\ unmatchedBank' = PushUnmatched(unmatchedBank, ix)
                /\ UNCHANGED <<matched, usedYnabIds>>
    /\ idx' = idx + 1
    /\ UNCHANGED <<bankTransactions, tolerance, hostZone, ledger, pc, ynabTransactions,
                   sortedBankTransactions, unmatchedYNAB, summary, outcome, calls, bankAtCall>>
    /\ UNCHANGED <<rvars, tvars, svars>>

\* After the loop: unmatchedYNAB, the summary and the return
Finish ==
    /\ pc = "loop"
    /\ idx > Len(sortedBankTransactions)
    /\ unmatchedYNAB' = SelectSeq(ynabTransactions, LAMBDA t : t.id \notin usedYnabIds)
    /\ summary' = [totalBankTransactions |-> Len(bankTransactions),
                   totalYNABTransactions |-> Len(ynabTransactions),
                   matchedCount |-> Len(matched),
                   matchRate |-> MatchRate(Len(matched), Len(bankTransactions))]
    /\ pc' = "done"
    /\ outcome' = "returned"
    /\ UNCHANGED <<bankTransactions, tolerance, hostZone, ledger, ynabTransactions,
                   sortedBankTransactions, idx, matched, usedYnabIds, unmatchedBank,
                   calls, bankAtCall>>
    /\ UNCHANGED <<rvars, tvars, svars>>

MatchNext == DateRangeThrows \/ FetchFails \/ Fetch \/ MatchOne \/ Finish

Spec == MatchInit /\ [][MatchNext]_vars

----------------------------------------------------------------------------
(* reconcileAccountWithAdjustment *)

MaxRTx == 2         \* most transactions in the reconciled account

RECONCILIATION_PAYEE_ID == "f942249d-8be6-4c16-8cb8-3007897cdfc8"
INFLOW_CATEGORY_ID == "27e74120-8c36-43df-bac2-2ac4b033879e"
Null == "null"

RTx(id, date, amount, cleared, deleted) ==
    [id |-> id, date |-> date, amount |-> amount, cleared |-> cleared, deleted |-> deleted,
     approved |-> TRUE, payee_id |-> Null, payee_name |-> Null, category_id |-> Null,
     memo |-> Null]

RTxCatalogue ==
    { RTx(0, 1, 100000, "cleared", FALSE),
      RTx(0, 2, 18500, "uncleared", FALSE),
      RTx(0, 3, -500, "cleared", FALSE),
      RTx(0, 1, 1500, "reconciled", FALSE),
      RTx(0, 1, 7000, "uncleared", TRUE) }

\* targetBalance, a decimal number of dollars in tenths of a milliunit
TargetBalances == {1200000, 1185000, 999996}

ReconciliationDates == {2}

Memos == {Null, "", "statement 03"}

RWithIds(txs) == [i \in 1..Len(txs) |-> [txs[i] EXCEPT !.id = i]]

RECURSIVE SumAmounts(_, _)
SumAmounts(txs, i) ==
    IF i > Len(txs) THEN 0
    ELSE (IF txs[i].deleted THEN 0 ELSE txs[i].amount) + SumAmounts(txs, i + 1)

\* getAccount: account.balance, which the ledger computes from its transactions
AccountBalance(txs) == SumAmounts(txs, 1)

\* getAccountTransactions without parameters: the account's transactions that
\* are not deleted
AccountTransactions(txs) == SelectSeq(txs, LAMBDA t : ~t.deleted)

NeedsReconcilingBefore(t, reconciliationDate) ==
    /\ TimeOf(t.date) < TimeOf(reconciliationDate)
    /\ (t.cleared = "cleared" \/ t.cleared = "uncleared")

\* The filter of step 2: dated on or before the reconciliation date and
\* cleared or uncleared
NeedsReconciling(t, reconciliationDate) ==
    /\ TimeOf(t.date) <= TimeOf(reconciliationDate)
    /\ (t.cleared = "cleared" \/ t.cleared = "uncleared")

transactionsToReconcile(fetched, reconciliationDate) ==
    SelectSeq(fetched, LAMBDA t : NeedsReconciling(t, reconciliationDate))

\* The ledger applying an update of the clearing status to the ids it accepts
ApplyReconciled(txs, ids) ==
    [i \in 1..Len(txs) |-> IF txs[i].id \in ids THEN [txs[i] EXCEPT !.cleared = "reconciled"]
                           ELSE txs[i]]

\* Math.round(targetBalance * 1000)
TargetMilliunits(targetBalance) == (targetBalance + 5) \div 10

TwoDigits(n) == IF n < 10 THEN "0" \o ToString(n) ELSE ToString(n)

\* targetBalance.toFixed(2), of a target that is not negative
ToFixed2(targetBalance) ==
    LET cents == (targetBalance + 50) \div 100
    IN  ToString(cents \div 100) \o "." \o TwoDigits(cents % 100)

\* adjustmentMemo || `Reconciliation adjustment to match balance of $...`
MemoOrDefault(memo, targetBalance) ==
    IF memo = Null \/ memo = ""
    THEN "Reconciliation adjustment to match balance of $" \o ToFixed2(targetBalance)
    ELSE memo

adjustmentDataInflow(reconciliationDate, adjustmentNeeded, payeeFound, memo, targetBalance) ==
    [id |-> 0,
     date |-> reconciliationDate,
     amount |-> adjustmentNeeded,
     payee_id |-> IF payeeFound THEN RECONCILIATION_PAYEE_ID ELSE Null,
     payee_name |-> IF payeeFound THEN Null ELSE "Manual Balance Adjustment",
     category_id |-> INFLOW_CATEGORY_ID,
     memo |-> MemoOrDefault(memo, targetBalance),
     cleared |-> "reconciled",
     approved |-> TRUE,
     deleted |-> FALSE]

\* adjustmentData.transaction
adjustmentData(reconciliationDate, adjustmentNeeded, payeeFound, memo, targetBalance) ==
    [id |-> 0,
     date |-> reconciliationDate,
     amount |-> adjustmentNeeded,
     payee_id |-> IF payeeFound THEN RECONCILIATION_PAYEE_ID ELSE Null,
     payee_name |-> IF payeeFound THEN Null ELSE "Manual Balance Adjustment",
     category_id |-> IF adjustmentNeeded > 0 THEN INFLOW_CATEGORY_ID ELSE Null,
     memo |-> MemoOrDefault(memo, targetBalance),
     cleared |-> "reconciled",
     approved |-> TRUE,
     deleted |-> FALSE]

\* The ledger storing a created transaction under a new id
CreateInLedger(txs, draft) == Append(txs, [draft EXCEPT !.id = Len(txs) + 1])

\* A ledger call as the ledger sees it: the operation, whether it was answered,
\* and for the two writes what was sent and what came back
Call(op, ok) == [op |-> op, ok |-> ok, ids |-> {}, returned |-> {}, draft |-> <<>>]

\* bulkUpdateTransactions(budgetId, updates): every update is {id, cleared: 'reconciled'}
UpdateCall(ok, ids, returned) ==
    [op |-> "updateTransactions", ok |-> ok, ids |-> ids, returned |-> returned, draft |-> <<>>]

\* createTransaction(budgetId, adjustmentData)
CreateCall(ok, draft) ==
    [op |-> "createTransaction", ok |-> ok, ids |-> {}, returned |-> {}, draft |-> <<draft>>]

NoLocals ==
    [startingBalance |-> 0, toReconcile |-> {}, transactionsReconciled |-> 0,
     actualBalance |-> 0, adjustmentNeeded |-> 0, adjustmentCreated |-> FALSE,
     payeeFound |-> FALSE, errors |-> <<>>]

NoResult == [kind |-> "none"]

\* throw new Error(`Reconciliation failed: ...`) of the outer catch
Thrown == [kind |-> "threw"]

ReturnsRefetched(loc, in) ==
    [kind |-> "returned",
     reconciliation_date |-> in.reconciliationDate,
     transactions_reconciled |-> loc.transactionsReconciled,
     starting_balance |-> loc.startingBalance,
     target_balance |-> TargetMilliunits(in.targetBalance),
     actual_balance |-> loc.actualBalance,
     adjustment_needed |-> loc.adjustmentNeeded,
     adjustment_created |-> loc.adjustmentCreated,
     errors |-> loc.errors]

\* The returned ReconciliationResult
Returns(loc, in) ==
    [kind |-> "returned",
     reconciliation_date |-> in.reconciliationDate,
     transactions_reconciled |-> loc.transactionsReconciled,
     starting_balance |-> loc.startingBalance,
     target_balance |-> TargetMilliunits(in.targetBalance),
     actual_balance |-> IF loc.adjustmentCreated THEN TargetMilliunits(in.targetBalance)
                        ELSE loc.actualBalance,
     adjustment_needed |-> loc.adjustmentNeeded,
     adjustment_created |-> loc.adjustmentCreated,
     errors |-> loc.errors]

MIdle ==
    /\ bankTransactions = <<>>
    /\ bankAtCall = <<>>
    /\ tolerance = DefaultTolerance
    /\ hostZone = "UTC"
    /\ ledger = <<>>
    /\ pc = "idle"
    /\ ynabTransactions = <<>>
    /\ sortedBankTransactions = <<>>
    /\ idx = 1
    /\ matched = <<>>
    /\ usedYnabIds = {}
    /\ unmatchedBank = <<>>
    /\ unmatchedYNAB = <<>>
    /\ summary = NoSummary
    /\ outcome = "none"
    /\ calls = <<>>

ReconcileInit ==
    /\ rin \in [targetBalance : TargetBalances, reconciliationDate : ReconciliationDates,
                createAdjustment : BOOLEAN, adjustmentMemo : Memos]
    /\ rledger \in [txs : {RWithIds(l) : l \in SeqsUpTo(RTxCatalogue, MaxRTx)},
                    hasReconciliationPayee : BOOLEAN]
    /\ rledgerAtCall = rledger
    /\ rloc = NoLocals
    /\ rcalls = <<>>
    /\ rpc = "step1"
    /\ result = NoResult
    /\ MIdle
    /\ TIdle
    /\ SIdle

\* Step 1: getAccount rejects (an unknown account, a transport error)
GetAccountFails ==
    /\ rpc = "step1"
    /\ rcalls' = Append(rcalls, Call("getAccount", FALSE))
    /\ result' = Thrown
    /\ rpc' = "done"
    /\ UNCHANGED <<rin, rledgerAtCall, rledger, rloc>>
    /\ UNCHANGED <<mvars, tvars, svars>>

\* Step 1: startingBalance = account.balance
GetAccount ==
    /\ rpc = "step1"
    /\ rcalls' = Append(rcalls, Call("getAccount", TRUE))
    /\ rloc' = [rloc EXCEPT !.startingBalance = AccountBalance(rledger.txs)]
    /\ rpc' = "step2"
    /\ UNCHANGED <<rin, rledgerAtCall, rledger, result>>
    /\ UNCHANGED <<mvars, tvars, svars>>

\* every transaction is marked before the fetch is tried
GetTransactionsFailsAfterMark ==
    /\ rpc = "step2"
    /\ rcalls' = Append(rcalls, Call("getAccountTransactions", FALSE))
    /\ rledger' = [rledger EXCEPT !.txs = ApplyReconciled(@, {@[i].id : i \in 1..Len(@)})]
    /\ result' = Thrown
    /\ rpc' = "done"
    /\ UNCHANGED <<rin, rledgerAtCall, rloc>>
    /\ UNCHANGED <<mvars, tvars, svars>>

\* Step 2: getAccountTransactions rejects
GetTransactionsFails ==
    /\ rpc = "step2"
    /\ rcalls' = Append(rcalls, Call("getAccountTransactions", FALSE))
    /\ result' = Thrown
    /\ rpc' = "done"
    /\ UNCHANGED <<rin, rledgerAtCall, rledger, rloc>>
    /\ UNCHANGED <<mvars, tvars, svars>>

\* Step 2: the fetch and the filter; step 3 is skipped when nothing is to mark
GetTransactions ==
    /\ rpc = "step2"
    /\ rcalls' = Append(rcalls, Call("getAccountTransactions", TRUE))
    /\ LET todo == transactionsToReconcile(AccountTransactions(rledger.txs),
                                           rin.reconciliationDate)
       IN  /\ rloc' = [rloc EXCEPT !.toReconcile = {todo[i].id : i \in 1..Len(todo)}]
           /\ rpc' = IF Len(todo) > 0 THEN "step3" ELSE "step4"
    /\ UNCHANGED <<rin, rledgerAtCall, rledger, result>>
    /\ UNCHANGED <<mvars, tvars, svars>>

MarkReconciledFailsFatal ==
    /\ rpc = "step3"
    /\ rcalls' = Append(rcalls, UpdateCall(FALSE, rloc.toReconcile, {}))
    /\ rloc' = [rloc EXCEPT !.errors = Append(@, "Failed to update some transactions")]
    /\ result' = Thrown
    /\ rpc' = "done"
    /\ UNCHANGED <<rin, rledgerAtCall, rledger>>
    /\ UNCHANGED <<mvars, tvars, svars>>

\* Step 3: bulkUpdateTransactions rejects: a warning, the count stays 0
MarkReconciledFails ==
    /\ rpc = "step3"
    /\ rcalls' = Append(rcalls, UpdateCall(FALSE, rloc.toReconcile, {}))
    /\ rloc' = [rloc EXCEPT !.errors = Append(@, "Failed to update some transactions")]
    /\ rpc' = "step4"
    /\ UNCHANGED <<rin, rledgerAtCall, rledger, result>>
    /\ UNCHANGED <<mvars, tvars, svars>>

\* Step 3: one batched update; the ledger answers with the transactions it updated
MarkReconciled ==
    /\ rpc = "step3"
    /\ \E done \in SUBSET rloc.toReconcile :
          /\ rledger' = [rledger EXCEPT !.txs = ApplyReconciled(@, done)]
          /\ rloc' = [rloc EXCEPT !.transactionsReconciled = Cardinality(done)]
          /\ rcalls' = Append(rcalls, UpdateCall(TRUE, rloc.toReconcile, done))
    /\ rpc' = "step4"
    /\ UNCHANGED <<rin, rledgerAtCall, result>>
    /\ UNCHANGED <<mvars, tvars, svars>>

\* Step 4: the second getAccount rejects, outside any inner try: the outer
\* catch rethrows
RefetchAccountFails ==
    /\ rpc = "step4"
    /\ rcalls' = Append(rcalls, Call("getAccount", FALSE))
    /\ result' = Thrown
    /\ rpc' = "done"
    /\ UNCHANGED <<rin, rledgerAtCall, rledger, rloc>>
    /\ UNCHANGED <<mvars, tvars, svars>>

\* no second getAccount: the starting balance is taken for the actual balance
RefetchAccountSkipped ==
    /\ rpc = "step4"
    /\ UNCHANGED rcalls
    /\ LET actualBalance == rloc.startingBalance
           adjustmentNeeded == TargetMilliunits(rin.targetBalance) - actualBalance
           loc == [rloc EXCEPT !.actualBalance = actualBalance,
                               !.adjustmentNeeded = adjustmentNeeded]
       IN  /\ rloc' = loc
           /\ IF adjustmentNeeded # 0 /\ rin.createAdjustment
              THEN rpc' = "step5" /\ UNCHANGED result
              ELSE rpc' = "done" /\ result' = Returns(loc, rin)
    /\ UNCHANGED <<rin, rledgerAtCall, rledger>>
    /\ UNCHANGED <<mvars, tvars, svars>>

\* Step 4: actualBalance and adjustmentNeeded; without an adjustment to create
\* the result is returned
RefetchAccount ==
    /\ rpc = "step4"
    /\ rcalls' = Append(rcalls, Call("getAccount", TRUE))
    /\ LET actualBalance == AccountBalance(rledger.txs)
           adjustmentNeeded == TargetMilliunits(rin.targetBalance) - actualBalance
           loc == [rloc EXCEPT !.actualBalance = actualBalance,
                               !.adjustmentNeeded = adjustmentNeeded]
       IN  /\ rloc' = loc
           /\ IF adjustmentNeeded # 0 /\ rin.createAdjustment
              THEN rpc' = "step5" /\ UNCHANGED result
              ELSE rpc' = "done" /\ result' = Returns(loc, rin)
    /\ UNCHANGED <<rin, rledgerAtCall, rledger>>
    /\ UNCHANGED <<mvars, tvars, svars>>

\* Step 5: getPayees rejects inside the try of step 5
GetPayeesFails ==
    /\ rpc = "step5"
    /\ rcalls' = Append(rcalls, Call("getPayees", FALSE))
    /\ LET loc == [rloc EXCEPT !.errors = Append(@, "Failed to create adjustment transaction")]
       IN  rloc' = loc /\ result' = Returns(loc, rin)
    /\ rpc' = "done"
    /\ UNCHANGED <<rin, rledgerAtCall, rledger>>
    /\ UNCHANGED <<mvars, tvars, svars>>

\* Step 5: the system payee is looked up; a warning when it is not found
GetPayees ==
    /\ rpc = "step5"
    /\ rcalls' = Append(rcalls, Call("getPayees", TRUE))
    /\ rloc' = [rloc EXCEPT
                  !.payeeFound = rledger.hasReconciliationPayee,
                  !.errors = IF rledger.hasReconciliationPayee THEN @
                             ELSE Append(@, "System reconciliation payee not found. Using manual adjustment instead.")]
    /\ rpc' = "create"
    /\ UNCHANGED <<rin, rledgerAtCall, rledger, result>>
    /\ UNCHANGED <<mvars, tvars, svars>>

\* Step 5: the adjustmentData built from the arguments and the locals
Draft ==
    adjustmentData(rin.reconciliationDate, rloc.adjustmentNeeded, rloc.payeeFound,
                   rin.adjustmentMemo, rin.targetBalance)

CreateAdjustmentFailsFlagged ==
    /\ rpc = "create"
    /\ rcalls' = Append(rcalls, CreateCall(FALSE, Draft))
    /\ LET loc == [rloc EXCEPT !.errors = Append(@, "Failed to create adjustment transaction"),
                               !.adjustmentCreated = TRUE]
       IN  rloc' = loc /\ result' = Returns(loc, rin)
    /\ rpc' = "done"
    /\ UNCHANGED <<rin, rledgerAtCall, rledger>>
    /\ UNCHANGED <<mvars, tvars, svars>>

\* Step 5: createTransaction rejects
CreateAdjustmentFails ==
    /\ rpc = "create"
    /\ rcalls' = Append(rcalls, CreateCall(FALSE, Draft))
    /\ LET loc == [rloc EXCEPT !.errors = Append(@, "Failed to create adjustment transaction")]
       IN  rloc' = loc /\ result' = Returns(loc, rin)
    /\ rpc' = "done"
    /\ UNCHANGED <<rin, rledgerAtCall, rledger>>
    /\ UNCHANGED <<mvars, tvars, svars>>

\* Step 5: the adjustment transaction is created
CreateAdjustment ==
    /\ rpc = "create"
    /\ rcalls' = Append(rcalls, CreateCall(TRUE, Draft))
    /\ rledger' = [rledger EXCEPT !.txs = CreateInLedger(@, Draft)]
    /\ LET loc == [rloc EXCEPT !.adjustmentCreated = TRUE]
       IN  rloc' = loc /\ result' = Returns(loc, rin)
    /\ rpc' = "done"
    /\ UNCHANGED <<rin, rledgerAtCall>>
    /\ UNCHANGED <<mvars, tvars, svars>>

ReconcileNext ==
    \/ GetAccountFails \/ GetAccount
    \/ GetTransactionsFails \/ GetTransactions
    \/ MarkReconciledFails \/ MarkReconciled
    \/ RefetchAccountFails \/ RefetchAccount
    \/ GetPayeesFails \/ GetPayees
    \/ CreateAdjustmentFails \/ CreateAdjustment

SpecReconcile == ReconcileInit /\ [][ReconcileNext]_vars

----------------------------------------------------------------------------
(* Properties of matchBankTransactions *)

Returned == pc = "done" /\ outcome = "returned"

MatchedAt(ix) == {k \in 1..Len(matched) : matched[k].bankIx = ix}
UnmatchedAt(ix) == {k \in 1..Len(unmatchedBank) : unmatchedBank[k] = ix}

\* C1: in every returned result each bank transaction (by its position in the
\* caller's list) is in exactly one of matched and unmatchedBank, so
\* matched.length + unmatchedBank.length = bankTransactions.length, and
\* summary.matchedCount = matched.length.
C1_BankPartition ==
    Returned =>
        /\ \A ix \in 1..Len(bankAtCall) :
              Cardinality(MatchedAt(ix)) + Cardinality(UnmatchedAt(ix)) = 1
        /\ Len(matched) + Len(unmatchedBank) = Len(bankAtCall)
        /\ summary.matchedCount = Len(matched)
        /\ summary.totalBankTransactions = Len(bankAtCall)

C1_Witness == Returned /\ Len(matched) > 0 /\ Len(unmatchedBank) > 0

MatchedIds(k) == matched[k].ynabTransaction.id
IdsOf(txs) == {txs[i].id : i \in 1..Len(txs)}

\* C2: each ledger transaction of the candidate set is consumed by at most one
\* match (in every state of the loop the matched ledger ids are pairwise
\* different and are exactly the used ids); in the returned result every
\* candidate id is once in matched or once in unmatchedYNAB, never both, and
\* matched.length + unmatchedYNAB.length = summary.totalYNABTransactions.
C2_LedgerPartition ==
    /\ \A k, l \in 1..Len(matched) : k # l => MatchedIds(k) # MatchedIds(l)
    /\ usedYnabIds = {MatchedIds(k) : k \in 1..Len(matched)}
    /\ usedYnabIds \subseteq IdsOf(ynabTransactions)
    /\ Returned =>
          /\ \A i \in 1..Len(ynabTransactions) :
                Cardinality({k \in 1..Len(matched) :
                                MatchedIds(k) = ynabTransactions[i].id})
                + Cardinality({k \in 1..Len(unmatchedYNAB) :
                                unmatchedYNAB[k].id = ynabTransactions[i].id}) = 1
          /\ IdsOf(unmatchedYNAB) \subseteq IdsOf(ynabTransactions)
          /\ Len(matched) + Len(unmatchedYNAB) = summary.totalYNABTransactions
          /\ summary.totalYNABTransactions = Len(ynabTransactions)

\* a bank transaction left unmatched although, with nothing consumed, a ledger
\* transaction would have been eligible for it
C2_Witness ==
    /\ Returned
    /\ Len(matched) > 0
    /\ \E k \in 1..Len(unmatchedBank) :
          BestMatch(bankAtCall[unmatchedBank[k]], ynabTransactions, {}, tolerance).found

\* round(amount * 1000) of a bank amount held in tenths of a milliunit: the
\* integer n with n - 1/2 <= amount * 1000 < n + 1/2
IsRounded(n, amount) == 10 * n - 5 <= amount /\ amount < 10 * n + 5

\* some n with IsRounded(n, amount) lies in ynabTx.amount - 1000 .. ynabTx.amount + 1000
WithinSlack(bankTx, ynabTx) ==
    /\ 10 * (ynabTx.amount - 1000) - 5 <= bankTx.amount
    /\ bankTx.amount < 10 * (ynabTx.amount + 1000) + 5

DayDistance(bankTx, ynabTx) == Abs(bankTx.date - ynabTx.date)

\* C3: every matched pair passes both gates: the days between the two dates are
\* at most the tolerance, and round(bank amount * 1000) is within 1000
\* milliunits of the ledger amount (1000 accepted, 1001 not).
C3_Gates ==
    \A k \in 1..Len(matched) :
        /\ DayDistance(matched[k].bankTransaction, matched[k].ynabTransaction) <= tolerance
        /\ WithinSlack(matched[k].bankTransaction, matched[k].ynabTransaction)

\* a pair exactly 1000 milliunits apart is matched, and a bank transaction is
\* left unmatched beside a same-date candidate 1001 milliunits away
C3_Witness ==
    /\ Returned
    /\ \E k \in 1..Len(matched) :
          IsRounded(matched[k].ynabTransaction.amount - 1000, matched[k].bankTransaction.amount)
    /\ \E k \in 1..Len(unmatchedBank) : \E i \in 1..Len(ynabTransactions) :
          /\ ynabTransactions[i].date = bankAtCall[unmatchedBank[k]].date
          /\ IsRounded(ynabTransactions[i].amount + 1001, bankAtCall[unmatchedBank[k]].amount)

AmountEqual(bankTx, ynabTx) == IsRounded(ynabTx.amount, bankTx.amount)

PairSimilarity(bankTx, ynabTx) == payeeSimilarity(bankTx.payee, OrUndefined(ynabTx.payee_name))

\* The tier of a pair as the specification orders the tiers
TierOf(bankTx, ynabTx, tol) ==
    LET sim == PairSimilarity(bankTx, ynabTx)
    IN  CASE AmountEqual(bankTx, ynabTx) /\ DayDistance(bankTx, ynabTx) = 0
                /\ sim.num = sim.den -> "exact"
          [] AmountEqual(bankTx, ynabTx) /\ DayDistance(bankTx, ynabTx) <= 1
                /\ 2 * sim.num > sim.den -> "high"
          [] AmountEqual(bankTx, ynabTx) /\ DayDistance(bankTx, ynabTx) <= tol -> "medium"
          [] OTHER -> "low"

\* C4: the tier of a matched pair is the first that applies of exact, high,
\* medium, low; so a pair is low exactly when its amounts are within the slack
\* but not equal.
C4_Tiers ==
    \A k \in 1..Len(matched) :
        LET b == matched[k].bankTransaction
            y == matched[k].ynabTransaction
        IN  /\ matched[k].matchConfidence = TierOf(b, y, tolerance)
            /\ (matched[k].matchConfidence = "low") <=>
                  (WithinSlack(b, y) /\ ~AmountEqual(b, y))

\* a similarity of exactly one half with equal amounts a day apart (medium,
\* not high), beside a match within the slack (low)
C4_Witness ==
    /\ Returned
    /\ \E k \in 1..Len(matched) :
          LET sim == PairSimilarity(matched[k].bankTransaction, matched[k].ynabTransaction)
          IN  /\ 2 * sim.num = sim.den
              /\ DayDistance(matched[k].bankTransaction, matched[k].ynabTransaction) = 1
              /\ matched[k].matchConfidence = "medium"
    /\ \E k \in 1..Len(matched) : matched[k].matchConfidence = "low"

\* bank amount * 1000 = ledger milliunits, the same date and an identical payee
\* (both name a payee, by the same non-empty string)
ExactPair(bankTx, ynabTx) ==
    /\ bankTx.amount = 10 * ynabTx.amount
    /\ bankTx.date = ynabTx.date
    /\ bankTx.payee.some /\ ynabTx.payee_name.some
    /\ bankTx.payee.s # <<>>
    /\ bankTx.payee.s = ynabTx.payee_name.s

ExactlyMatched(ix) == \E k \in MatchedAt(ix) : matched[k].matchConfidence = "exact"

\* The position of bank transaction ix in the processing order
TurnOf(ix) == CHOOSE t \in 1..Len(sortedBankTransactions) : sortedBankTransactions[t] = ix

\* Ledger transaction id was consumed by a bank transaction processed before ix
ConsumedBefore(id, ix) ==
    \E k \in 1..Len(matched) :
        MatchedIds(k) = id /\ TurnOf(matched[k].bankIx) < TurnOf(ix)

\* C5 as stated: whenever the input holds a bank and a ledger transaction with
\* equal amount, the same date and an identical payee, that bank transaction is
\* reported matched with tier exact, whatever else is in the call.
C5_ExactPairAlwaysExact ==
    Returned =>
        \A ix \in 1..Len(bankAtCall) : \A i \in 1..Len(ledger) :
            ExactPair(bankAtCall[ix], ledger[i]) => ExactlyMatched(ix)

\* C5 amended: ... that bank transaction is reported matched with tier exact
\* provided the ledger transaction has not been consumed by a bank transaction
\* processed earlier.
C5_ExactPairExactUnlessConsumed ==
    Returned =>
        \A ix \in 1..Len(bankAtCall) : \A i \in 1..Len(ledger) :
            ( /\ ExactPair(bankAtCall[ix], ledger[i])
              /\ ~ConsumedBefore(ledger[i].id, ix) ) => ExactlyMatched(ix)

\* an exact pair found although an eligible candidate of a lower tier comes
\* first in the ledger's order
C5_Witness ==
    /\ Returned
    /\ \E ix \in 1..Len(bankAtCall) : \E i, j \in 1..Len(ynabTransactions) :
          /\ j < i
          /\ ExactPair(bankAtCall[ix], ynabTransactions[i])
          /\ ~ExactPair(bankAtCall[ix], ynabTransactions[j])
          /\ WithinSlack(bankAtCall[ix], ynabTransactions[j])
          /\ DayDistance(bankAtCall[ix], ynabTransactions[j]) <= tolerance
          /\ ~ConsumedBefore(ynabTransactions[j].id, ix)
          /\ \E k \in MatchedAt(ix) :
                /\ matched[k].matchConfidence = "exact"
                /\ MatchedIds(k) = ynabTransactions[i].id

\* C6: with an empty bank list the matcher returns matchRate = 0, empty matched
\* and unmatchedBank, and every ledger transaction in unmatchedYNAB.
C6_EmptyBankList ==
    (pc = "done" /\ Len(bankAtCall) = 0) =>
        /\ outcome = "returned"
        /\ summary.matchRate.num = 0 /\ summary.matchRate.den # 0
        /\ matched = <<>>
        /\ unmatchedBank = <<>>
        /\ unmatchedYNAB = ledger

\* C7: the matcher never ends in an error: whatever the input (the ledger
\* answering its read), it returns a result.
C7_NeverFails ==
    (pc = "done" /\ outcome # "LedgerError") => outcome = "returned"

\* C9 as stated: the matcher issues no ledger call of any kind and leaves the
\* caller's list as it was.
C9_NoLedgerCall == calls = <<>> /\ bankTransactions = bankAtCall

\* C9 amended: the matcher issues no ledger write and at most one read, of the
\* account's transactions (exactly one before it matches and whenever it
\* returns), and leaves the caller's list unchanged in content and order.
C9_OneReadNoWrite ==
    /\ \A i \in 1..Len(calls) : calls[i] = "getAccountTransactions"
    /\ Len(calls) <= 1
    /\ (pc = "loop" \/ Returned) => Len(calls) = 1
    /\ bankTransactions = bankAtCall

\* the read was issued and the processing order differs from the caller's order
C9_Witness ==
    /\ Returned
    /\ calls = <<"getAccountTransactions">>
    /\ \E t \in 1..Len(sortedBankTransactions) : sortedBankTransactions[t] # t
    /\ \E t \in 1..Len(sortedBankTransactions) :
          bankAtCall[sortedBankTransactions[t]] # bankAtCall[t]

----------------------------------------------------------------------------
(* Properties of reconcileAccountWithAdjustment *)

FailedCalls == {i \in 1..Len(rcalls) : ~rcalls[i].ok}

\* C10: the reconciler throws only when the initial account lookup (its first
\* ledger call) or the initial transaction fetch (its second) fails; a failure
\* of any later ledger call is recorded as a warning and an outcome is returned.
C10_FatalOnlyInitialCalls ==
    rpc = "done" =>
        /\ result.kind = "threw" => FailedCalls \subseteq {1, 2} /\ FailedCalls # {}
        /\ (\E i \in FailedCalls : i > 2) =>
              (result.kind = "returned" /\ Len(result.errors) > 0)

ReconcileReturned == rpc = "done" /\ result.kind = "returned"

UpdateCalls == {i \in 1..Len(rcalls) : rcalls[i].op = "updateTransactions"}
CreateCalls == {i \in 1..Len(rcalls) : rcalls[i].op = "createTransaction"}

\* The transactions of the account, as they were when the reconcile was called,
\* that are not deleted, are dated on or before the reconciliation date and are
\* cleared or uncleared
DueIds ==
    {rledgerAtCall.txs[i].id : i \in
        {j \in 1..Len(rledgerAtCall.txs) :
            /\ ~rledgerAtCall.txs[j].deleted
            /\ rledgerAtCall.txs[j].date <= rin.reconciliationDate
            /\ rledgerAtCall.txs[j].cleared \in {"cleared", "uncleared"}}}

\* the workflow is past its mark step
PastMark == Len(rcalls) >= 2 /\ rcalls[2].ok /\ rpc # "step3"

PartialUpdate(i) ==
    /\ rcalls[i].op = "updateTransactions"
    /\ rcalls[i].ok
    /\ Cardinality(rcalls[i].returned) < Cardinality(rcalls[i].ids)

\* C12: when the batched status update returns fewer transactions than were
\* requested, the returned outcome has a non-empty warnings list and
\* transactions_reconciled is the number returned, not the number requested.
C12_PartialUpdateWarned ==
    ReconcileReturned =>
        \A i \in 1..Len(rcalls) :
            PartialUpdate(i) =>
                /\ Len(result.errors) > 0
                /\ result.transactions_reconciled = Cardinality(rcalls[i].returned)

FailedUpdate(i) == rcalls[i].op = "updateTransactions" /\ ~rcalls[i].ok

UpdateWarnings(errors) ==
    {k \in 1..Len(errors) : errors[k] = "Failed to update some transactions"}

\* C13: when the batched status update throws, exactly one warning is recorded
\* for it, transactions_reconciled is 0, and the workflow goes on: its next
\* ledger call is the balance re-fetch, and when that is answered the
\* adjustment is evaluated and an outcome (with the warning) is returned.
C13_UpdateFailureContinues ==
    \A i \in 1..Len(rcalls) :
        FailedUpdate(i) =>
            /\ rloc.transactionsReconciled = 0
            /\ Cardinality(UpdateWarnings(rloc.errors)) = 1
            /\ i = Len(rcalls) => rpc = "step4" /\ result.kind = "none"
            /\ i < Len(rcalls) => rcalls[i + 1].op = "getAccount"
            /\ rpc = "done" =>
                  /\ i < Len(rcalls)
                  /\ rcalls[i + 1].ok =>
                        /\ result.kind = "returned"
                        /\ result.transactions_reconciled = 0
                        /\ Cardinality(UpdateWarnings(result.errors)) = 1
                        /\ (rin.createAdjustment /\ result.adjustment_needed # 0)
                              => (i + 1 < Len(rcalls) /\ rcalls[i + 2].op = "getPayees")

\* the update threw, and the workflow went on to create the adjustment
C13_Witness ==
    /\ ReconcileReturned
    /\ \E i \in 1..Len(rcalls) : FailedUpdate(i)
    /\ result.adjustment_created
    /\ result.transactions_reconciled = 0
    /\ Len(result.errors) = 1

\* round(targetBalance * 1000): the milliunit amount nearest to the target
RoundedTarget ==
    CHOOSE n \in {rin.targetBalance \div 10, rin.targetBalance \div 10 + 1} :
        IsRounded(n, rin.targetBalance)

RECURSIVE SumOfLive(_)
SumOfLive(ts) ==
    IF ts = {} THEN 0
    ELSE LET t == CHOOSE x \in ts : TRUE
         IN  (IF t.deleted THEN 0 ELSE t.amount) + SumOfLive(ts \ {t})

\* The ledger balance of the account when the reconcile was called
PreMarkBalance == SumOfLive({rledgerAtCall.txs[i] : i \in 1..Len(rledgerAtCall.txs)})

\* The ledger balance of the account after the mark step: the sum over the
\* transactions it held at the call, as they are now (an adjustment comes later)
PostMarkBalance == SumOfLive({rledger.txs[i] : i \in 1..Len(rledgerAtCall.txs)})

AdjustmentDue == rin.createAdjustment /\ RoundedTarget # PostMarkBalance

\* C14: an adjustment transaction is submitted if and only if createAdjustment
\* is true and round(targetBalance * 1000) differs from the post-mark balance,
\* at most once and with that difference as its amount; adjustment_needed is
\* always that difference (1500 for 120.00 against 118500), and when it is 0
\* nothing is created and adjustment_created is false.
C14_AdjustmentIffDue ==
    /\ Cardinality(CreateCalls) <= 1
    /\ \A i \in CreateCalls :
          /\ AdjustmentDue
          /\ rcalls[i].draft[1].amount = RoundedTarget - PostMarkBalance
    /\ ReconcileReturned =>
          /\ CreateCalls # {} <=> AdjustmentDue
          /\ result.adjustment_needed = RoundedTarget - PostMarkBalance
          /\ (rin.targetBalance = 1200000 /\ PostMarkBalance = 118500)
                => result.adjustment_needed = 1500
          /\ RoundedTarget = PostMarkBalance =>
                (result.adjustment_needed = 0 /\ ~result.adjustment_created /\ CreateCalls = {})

\* C15: every returned outcome has starting_balance = the balance before the
\* mark step, target_balance = the target rounded to milliunits, actual_balance
\* = the target when an adjustment was created and the post-mark balance
\* otherwise, and adjustment_created only if createAdjustment was true,
\* adjustment_needed is not 0 and the createTransaction call succeeded.
C15_OutcomeBalances ==
    ReconcileReturned =>
        /\ result.starting_balance = PreMarkBalance
        /\ IsRounded(result.target_balance, rin.targetBalance)
        /\ result.actual_balance = (IF result.adjustment_created THEN result.target_balance
                                    ELSE PostMarkBalance)
        /\ result.adjustment_created =>
              /\ rin.createAdjustment
              /\ result.adjustment_needed # 0
              /\ \E i \in CreateCalls : rcalls[i].ok

\* an outcome after a created adjustment: the reported balance is the target,
\* which the post-mark balance was not
C15_Witness ==
    /\ ReconcileReturned
    /\ result.adjustment_created
    /\ result.actual_balance # PostMarkBalance
    /\ result.starting_balance # 0
    /\ rin.targetBalance # 10 * result.target_balance

\* the default memo for the targets of the model
DefaultMemoTexts ==
    {"Reconciliation adjustment to match balance of $" \o s : s \in {"120.00", "118.50", "100.00"}}

CallerMemoGiven == rin.adjustmentMemo # Null /\ rin.adjustmentMemo # ""

CreatedAdjustments ==
    {rledger.txs[j] : j \in {k \in 1..Len(rledger.txs) : k > Len(rledgerAtCall.txs)}}

\* C17: every adjustment transaction created, whatever the sign of its amount,
\* is categorized to "Inflow: Ready to Assign" (the inflow category id).
C17_AlwaysInflowCategory ==
    \A t \in CreatedAdjustments : t.category_id = INFLOW_CATEGORY_ID

PayeeWarning == "System reconciliation payee not found. Using manual adjustment instead."

\* C18: when an adjustment is due and the system payee id is not among the
\* budget's payees, a warning is recorded and the adjustment is still
\* submitted, with no payee id and the fallback payee name; when the id is
\* resolved the transaction carries it and no payee name; failing to resolve
\* the payee never by itself keeps the adjustment from being submitted.
C18_PayeeNeverPrevents ==
    /\ \A i \in CreateCalls :
          LET d == rcalls[i].draft[1]
          IN  IF rledger.hasReconciliationPayee
              THEN d.payee_id = RECONCILIATION_PAYEE_ID /\ d.payee_name = Null
              ELSE /\ d.payee_id = Null
                   /\ d.payee_name = "Manual Balance Adjustment"
                   /\ \E k \in 1..Len(rloc.errors) : rloc.errors[k] = PayeeWarning
    /\ (ReconcileReturned /\ AdjustmentDue) => CreateCalls # {}

FailedCreate(i) == rcalls[i].op = "createTransaction" /\ ~rcalls[i].ok

\* C19: when the adjustment createTransaction call fails, a complete outcome is
\* still returned: warnings is non-empty, adjustment_created is false,
\* adjustment_needed keeps the computed non-zero difference and actual_balance
\* is the post-mark balance, not the target.
C19_CreateFailureOutcome ==
    \A i \in 1..Len(rcalls) :
        FailedCreate(i) =>
            /\ ReconcileReturned
            /\ Len(result.errors) > 0
            /\ result.errors[Len(result.errors)] = "Failed to create adjustment transaction"
            /\ ~result.adjustment_created
            /\ result.adjustment_needed = RoundedTarget - PostMarkBalance
            /\ result.adjustment_needed # 0
            /\ result.actual_balance = PostMarkBalance
            /\ result.actual_balance # result.target_balance
            /\ result.starting_balance = PreMarkBalance
            /\ result.target_balance = RoundedTarget
            /\ CreatedAdjustments = {}

\* the creation failed after everything else had succeeded
C19_Witness ==
    /\ ReconcileReturned
    /\ \E i \in 1..Len(rcalls) : FailedCreate(i)
    /\ Len(result.errors) = 1
    /\ result.transactions_reconciled > 0

----------------------------------------------------------------------------
(* Processing order of matchBankTransactions *)

Processing == pc = "loop" \/ Returned

AbsAmountAt(ix) == Abs(bankAtCall[ix].amount)

\* both gates let the bank transaction at ix take the ledger transaction y
Eligible(ix, y) ==
    /\ DayDistance(bankAtCall[ix], y) <= tolerance
    /\ WithinSlack(bankAtCall[ix], y)

\* the bank transactions handled by the loop so far
Processed ==
    {matched[k].bankIx : k \in 1..Len(matched)} \cup {unmatchedBank[u] : u \in 1..Len(unmatchedBank)}

\* C20: bank transactions are processed in order of descending absolute amount,
\* input order kept among equal absolute amounts; each takes its match among
\* the ledger transactions no earlier-processed one consumed; so a bank
\* transaction left unmatched never had a larger absolute amount than one that
\* was given a ledger transaction it could itself have taken.
C20_LargerAmountFirst ==
    Processing =>
        /\ Len(sortedBankTransactions) = Len(bankAtCall)
        /\ {sortedBankTransactions[t] : t \in 1..Len(sortedBankTransactions)} = 1..Len(bankAtCall)
        /\ \A t, u \in 1..Len(sortedBankTransactions) :
              t < u =>
                 \/ AbsAmountAt(sortedBankTransactions[t]) > AbsAmountAt(sortedBankTransactions[u])
                 \/ /\ AbsAmountAt(sortedBankTransactions[t]) = AbsAmountAt(sortedBankTransactions[u])
                    /\ sortedBankTransactions[t] < sortedBankTransactions[u]
        /\ Processed = {sortedBankTransactions[t] : t \in 1..(idx - 1)}
        /\ \A k, l \in 1..Len(matched) :
              k < l =>
                 /\ TurnOf(matched[k].bankIx) < TurnOf(matched[l].bankIx)
                 /\ MatchedIds(k) # MatchedIds(l)
        /\ \A k \in 1..Len(matched) : \A u \in 1..Len(unmatchedBank) :
              Eligible(unmatchedBank[u], matched[k].ynabTransaction) =>
                 /\ TurnOf(matched[k].bankIx) < TurnOf(unmatchedBank[u])
                 /\ AbsAmountAt(matched[k].bankIx) >= AbsAmountAt(unmatchedBank[u])

\* two bank transactions competed for one ledger transaction: the one with the
\* larger absolute amount, later in the caller's list, took it
C20_Witness ==
    /\ Returned
    /\ \E k \in 1..Len(matched) : \E u \in 1..Len(unmatchedBank) :
          /\ Eligible(unmatchedBank[u], matched[k].ynabTransaction)
          /\ AbsAmountAt(matched[k].bankIx) > AbsAmountAt(unmatchedBank[u])
          /\ matched[k].bankIx > unmatchedBank[u]

TierRank(tier) ==
    CASE tier = "exact" -> 4 [] tier = "high" -> 3 [] tier = "medium" -> 2 [] tier = "low" -> 1

\* Ledger transaction t is eligible for the bank transaction at ix when its
\* turn comes: not consumed by an earlier-processed one, and through both gates
EligibleAtTurn(ix, t) == ~ConsumedBefore(t.id, ix) /\ Eligible(ix, t)

\* the ledger transactions handed to the matching loop: those fetched for the
\* account that the date window kept
LedgerTxs == {ynabTransactions[j] : j \in 1..Len(ynabTransactions)}

\* the place of a ledger transaction in fetch order
FetchPlace(t) == CHOOSE j \in 1..Len(ledger) : ledger[j].id = t.id

\* C21: the match selected for a bank transaction is an eligible unconsumed
\* ledger transaction of the highest tier among all eligible unconsumed ones at
\* that moment, and the first in fetch order among those of that tier; a bank
\* transaction is unmatched only if no ledger transaction is eligible for it.
C21_BestTierFirstInOrder ==
    Processing =>
        /\ \A k \in 1..Len(matched) :
              LET ix == matched[k].bankIx
                  y == matched[k].ynabTransaction
              IN  /\ y \in LedgerTxs
                  /\ EligibleAtTurn(ix, y)
                  /\ \A t \in LedgerTxs :
                        EligibleAtTurn(ix, t) =>
                           \/ TierRank(TierOf(bankAtCall[ix], t, tolerance))
                                 < TierRank(matched[k].matchConfidence)
                           \/ /\ TierOf(bankAtCall[ix], t, tolerance) = matched[k].matchConfidence
                              /\ FetchPlace(y) <= FetchPlace(t)
        /\ \A u \in 1..Len(unmatchedBank) :
              \A t \in LedgerTxs : ~EligibleAtTurn(unmatchedBank[u], t)

\* two eligible ledger transactions of the same tier: the first fetched was
\* taken; another bank transaction had nothing eligible and is unmatched
C21_Witness ==
    /\ Returned
    /\ Len(unmatchedBank) = 1
    /\ \E k \in 1..Len(matched) : \E t \in LedgerTxs :
          /\ t.id # MatchedIds(k)
          /\ EligibleAtTurn(matched[k].bankIx, t)
          /\ TierOf(bankAtCall[matched[k].bankIx], t, tolerance) = matched[k].matchConfidence
          /\ matched[k].matchConfidence = "medium"
          /\ FetchPlace(t) > FetchPlace(matched[k].ynabTransaction)

----------------------------------------------------------------------------
(* The payee-similarity score *)

\* The tokens of a lower-cased, trimmed payee, each known by the position it
\* starts at: the maximal runs without white space.  An empty string is one
\* empty token, at position 0 (what split gives for it).
TokenStarts(s) ==
    IF s = <<>> THEN {0}
    ELSE {a \in 1..Len(s) : s[a] \notin WhiteSpace /\ (a = 1 \/ s[a - 1] \in WhiteSpace)}

TokenAt(s, a) ==
    IF a = 0 THEN <<>>
    ELSE LET ends == {b \in a..Len(s) : \A c \in a..b : s[c] \notin WhiteSpace}
         IN  SubSeq(s, a, CHOOSE b \in ends : \A e \in ends : e <= b)

\* the tokens of s that are a substring of, or contain, a token of other
TokensFound(s, other) ==
    {a \in TokenStarts(s) :
        \E b \in TokenStarts(other) :
            Includes(TokenAt(other, b), TokenAt(s, a)) \/ Includes(TokenAt(s, a), TokenAt(other, b))}

PayeeMissing(p) == ~p.some \/ p.s = <<>>

Normal(p) == Trim(ToLowerCase(p.s))

SameFraction(f, n, d) == f.num * d = n * f.den

\* The scored pairs: every bank payee of the call with every ledger payee
PayeePairs ==
    {<<bankAtCall[i].payee, ledger[j].payee_name>> : i \in 1..Len(bankAtCall), j \in 1..Len(ledger)}

\* The score as the specification words it, for the shorter string s and the other
ShorterTokenFraction(f, s, other) ==
    SameFraction(f, Cardinality(TokensFound(s, other)), Cardinality(TokenStarts(s)))

\* C22 as stated: the score is 0 when either payee is missing, 1 when the two
\* are equal case-insensitively after trimming, and otherwise the fraction of
\* the tokens of the shorter payee string that are a substring of, or contain,
\* a token of the other; it is always in [0,1].
C22_ShorterTokenFraction ==
    Returned =>
        \A pr \in PayeePairs :
            LET f == payeeSimilarity(pr[1], OrUndefined(pr[2]))
                p1 == Normal(pr[1])
                p2 == Normal(pr[2])
            IN  /\ 0 <= f.num /\ f.num <= f.den /\ f.den >= 1
                /\ IF PayeeMissing(pr[1]) \/ PayeeMissing(pr[2]) THEN f.num = 0
                   ELSE IF p1 = p2 THEN f.num = f.den
                   ELSE \/ Len(p1) <= Len(p2) /\ ShorterTokenFraction(f, p1, p2)
                        \/ Len(p2) <= Len(p1) /\ ShorterTokenFraction(f, p2, p1)

\* C22 amended: the score is 0 when either payee is missing or empty, 1 when
\* the two are equal case-insensitively after trimming, and otherwise the
\* number of tokens of the bank payee that are a substring of, or contain, a
\* token of the ledger payee, divided by the larger of the two token counts;
\* it is always in [0,1].
C22_BankTokensOverLargerCount ==
    Returned =>
        \A pr \in PayeePairs :
            LET f == payeeSimilarity(pr[1], OrUndefined(pr[2]))
                p1 == Normal(pr[1])
                p2 == Normal(pr[2])
                n1 == Cardinality(TokenStarts(p1))
                n2 == Cardinality(TokenStarts(p2))
            IN  /\ 0 <= f.num /\ f.num <= f.den /\ f.den >= 1
                /\ IF PayeeMissing(pr[1]) \/ PayeeMissing(pr[2]) THEN f.num = 0
                   ELSE IF p1 = p2 THEN f.num = f.den
                   ELSE SameFraction(f, Cardinality(TokensFound(p1, p2)),
                                     IF n1 >= n2 THEN n1 ELSE n2)

\* a one-token bank payee scored against a three-token ledger payee that
\* contains it: one third, where the shorter string's own fraction is one
C22_Witness ==
    /\ Returned
    /\ \E pr \in PayeePairs :
          /\ ~PayeeMissing(pr[1]) /\ ~PayeeMissing(pr[2])
          /\ Cardinality(TokenStarts(Normal(pr[1]))) = 1
          /\ Cardinality(TokenStarts(Normal(pr[2]))) = 3
          /\ payeeSimilarity(pr[1], OrUndefined(pr[2])) = Frac(1, 3)

----------------------------------------------------------------------------
(* Order of the ledger calls of reconcileAccountWithAdjustment *)

OpsOf(cs) == [i \in 1..Len(cs) |-> cs[i].op]

IsPrefix(s, t) == Len(s) <= Len(t) /\ \A i \in 1..Len(s) : s[i] = t[i]

\* the two complete orders: with the batched mark, and without it
CallOrders ==
    { <<"getAccount", "getAccountTransactions", "updateTransactions", "getAccount",
        "getPayees", "createTransaction">>,
      <<"getAccount", "getAccountTransactions", "getAccount",
        "getPayees", "createTransaction">> }

\* the answered account re-fetch
Refetches == {i \in 1..Len(rcalls) : i > 2 /\ rcalls[i].op = "getAccount" /\ rcalls[i].ok}

\* C23: the ledger calls of one reconcile occur in the order account lookup,
\* transaction fetch, (batched mark), account re-fetch, (payee fetch,
\* adjustment creation), and the outcome is returned after the re-fetch; the
\* adjustment is never submitted before the mark step and the balance re-fetch,
\* and the balance its amount is computed from is read after the mark step.
C23_CallOrder ==
    /\ \E o \in CallOrders : IsPrefix(OpsOf(rcalls), o)
    /\ ReconcileReturned => Refetches # {}
    /\ \A i \in Refetches : \A u \in UpdateCalls : u < i
    /\ \A i \in Refetches : DueIds # {} => UpdateCalls # {}
    /\ \A c \in CreateCalls :
          /\ \E i \in Refetches : i < c
          /\ \A u \in UpdateCalls : u < c
          /\ DueIds # {} => UpdateCalls # {}
          /\ rcalls[c].draft[1].amount = RoundedTarget - PostMarkBalance

\* all six calls were made and the outcome returned
C23_Witness ==
    /\ ReconcileReturned
    /\ Len(rcalls) = 6
    /\ result.adjustment_created
    /\ result.transactions_reconciled > 0

----------------------------------------------------------------------------
(* bulkUpdateTransactionStatus and the two tools that call it:               *)
(* mark-transactions-cleared and reconcile-account-transactions              *)

MaxSTx == 2         \* most transactions in the budget the tools work on
MaxIds == 2         \* most transaction ids handed to mark-transactions-cleared

STxCatalogue ==
    { RTx(0, 1, 100000, "uncleared", FALSE),
      RTx(0, 2, 18500, "cleared", FALSE),
      RTx(0, 1, 1500, "reconciled", FALSE),
      RTx(0, 3, -500, "uncleared", FALSE) }

\* transactionIds.map(id => ({transactionId: id, cleared: 'cleared', approved: alsoApprove}))
ClearedUpdates(transactionIds, alsoApprove) ==
    [i \in 1..Len(transactionIds) |->
        [transactionId |-> transactionIds[i], cleared |-> "cleared", approved |-> alsoApprove]]

\* The filter of reconcile-account-transactions: not deleted, dated on or
\* before the reconciliation date (ISO strings compare as days), not reconciled
ToolNeedsReconciling(t, reconciliationDate) ==
    /\ ~t.deleted
    /\ t.date <= reconciliationDate
    /\ t.cleared # "reconciled"

\* transactionsToReconcile.map(t => ({transactionId: t.id, cleared: 'reconciled', approved: true}))
ReconciledUpdates(fetched, reconciliationDate) ==
    LET todo == SelectSeq(fetched, LAMBDA t : ToolNeedsReconciling(t, reconciliationDate))
    IN  [i \in 1..Len(todo) |->
            [transactionId |-> todo[i].id, cleared |-> "reconciled", approved |-> TRUE]]

\* updateTransactionStatus: the PUT, as the ledger sees it
StatusCall(update, ok) ==
    [op |-> "updateTransactionStatus", ok |-> ok, transactionId |-> update.transactionId,
     cleared |-> update.cleared, approved |-> update.approved]

ReadCall(op, ok) ==
    [op |-> op, ok |-> ok, transactionId |-> 0, cleared |-> Null, approved |-> FALSE]

\* The ledger applying the PUT to the transaction with that id
ApplyStatus(txs, update) ==
    [i \in 1..Len(txs) |->
        IF txs[i].id = update.transactionId
        THEN [txs[i] EXCEPT !.cleared = update.cleared, !.approved = update.approved]
        ELSE txs[i]]

TxWithId(txs, id) == txs[CHOOSE i \in 1..Len(txs) : txs[i].id = id]

KnownIds(txs) == {txs[i].id : i \in 1..Len(txs)}

\* What the tool's text reports
NoReport == [kind |-> "none", requested |-> 0, updated |-> 0, failed |-> 0]
ErrorReport == [kind |-> "error", requested |-> 0, updated |-> 0, failed |-> 0]
NothingToReconcile == [kind |-> "nothing", requested |-> 0, updated |-> 0, failed |-> 0]

\* 'Total Transactions Requested', 'Successfully Updated', 'Failed Updates'
ClearedReport(transactionIds, results) ==
    [kind |-> "complete", requested |-> Len(transactionIds), updated |-> Len(results),
     failed |-> Len(transactionIds) - Len(results)]

\* 'Transactions Reconciled': results.length; no count of failures is printed
ReconciledReport(updates, results) ==
    [kind |-> "complete", requested |-> Len(updates), updated |-> Len(results), failed |-> 0]

StatusInit ==
    /\ sledger \in {RWithIds(l) : l \in SeqsUpTo(STxCatalogue, MaxSTx)}
    /\ \/ /\ stool = "mark-transactions-cleared"
          /\ sargs \in [transactionIds : SeqsUpTo(1..(Len(sledger) + 1), MaxIds),
                        alsoApprove : BOOLEAN, reconciliationDate : {0}]
       \/ /\ stool = "reconcile-account-transactions"
          /\ sargs \in [transactionIds : {<<>>}, alsoApprove : {TRUE},
                        reconciliationDate : ReconciliationDates]
    /\ spc = "start"
    /\ supdates = <<>>
    /\ sidx = 1
    /\ sresults = <<>>
    /\ scalls = <<>>
    /\ sreport = NoReport
    /\ MIdle
    /\ RIdle
    /\ TIdle

\* mark-transactions-cleared: the updates are built from the ids as given
MarkClearedStart ==
    /\ spc = "start"
    /\ stool = "mark-transactions-cleared"
    /\ supdates' = ClearedUpdates(sargs.transactionIds, sargs.alsoApprove)
    /\ sidx' = 1
    /\ spc' = "loop"
    /\ UNCHANGED <<stool, sargs, sledger, sresults, scalls, sreport>>
    /\ UNCHANGED <<mvars, rvars, tvars>>

\* reconcile-account-transactions: getAccount or getAccountTransactions
\* rejects, and the handler answers with formatErrorResponse
ReconcileToolFetchFails ==
    /\ spc = "start"
    /\ stool = "reconcile-account-transactions"
    /\ \E op \in {"getAccount", "getAccountTransactions"} :
          scalls' = Append(scalls, ReadCall(op, FALSE))
    /\ sreport' = ErrorReport
    /\ spc' = "done"
    /\ UNCHANGED <<stool, sargs, sledger, supdates, sidx, sresults>>
    /\ UNCHANGED <<mvars, rvars, tvars>>

\* reconcile-account-transactions: both reads, the filter, and either the
\* early answer or the updates for the bulk call
ReconcileToolStart ==
    /\ spc = "start"
    /\ stool = "reconcile-account-transactions"
    /\ scalls' = scalls \o <<ReadCall("getAccount", TRUE), ReadCall("getAccountTransactions", TRUE)>>
    /\ LET updates == ReconciledUpdates(AccountTransactions(sledger), sargs.reconciliationDate)
       IN  IF Len(updates) = 0
           THEN sreport' = NothingToReconcile /\ spc' = "done" /\ UNCHANGED <<supdates, sidx>>
           ELSE supdates' = updates /\ sidx' = 1 /\ spc' = "loop" /\ UNCHANGED sreport
    /\ UNCHANGED <<stool, sargs, sledger, sresults>>
    /\ UNCHANGED <<mvars, rvars, tvars>>

\* the rejected PUT ends the loop
UpdateStatusFailsStops ==
    /\ spc = "loop"
    /\ sidx <= Len(supdates)
    /\ scalls' = Append(scalls, StatusCall(supdates[sidx], FALSE))
    /\ sidx' = Len(supdates) + 1
    /\ UNCHANGED <<stool, sargs, sledger, spc, supdates, sresults, sreport>>
    /\ UNCHANGED <<mvars, rvars, tvars>>

\* bulkUpdateTransactionStatus, one iteration: the PUT rejects (an unknown id,
\* a transport error); console.error, and the loop goes on
UpdateStatusFails ==
    /\ spc = "loop"
    /\ sidx <= Len(supdates)
    /\ scalls' = Append(scalls, StatusCall(supdates[sidx], FALSE))
    /\ sidx' = sidx + 1
    /\ UNCHANGED <<stool, sargs, sledger, spc, supdates, sresults, sreport>>
    /\ UNCHANGED <<mvars, rvars, tvars>>

\* bulkUpdateTransactionStatus, one iteration: the PUT is answered with the
\* updated transaction, which is pushed to results
UpdateStatus ==
    /\ spc = "loop"
    /\ sidx <= Len(supdates)
    /\ supdates[sidx].transactionId \in KnownIds(sledger)
    /\ scalls' = Append(scalls, StatusCall(supdates[sidx], TRUE))
    /\ sledger' = ApplyStatus(sledger, supdates[sidx])
    /\ sresults' = Append(sresults, TxWithId(ApplyStatus(sledger, supdates[sidx]),
                                              supdates[sidx].transactionId))
    /\ sidx' = sidx + 1
    /\ UNCHANGED <<stool, sargs, spc, supdates, sreport>>
    /\ UNCHANGED <<mvars, rvars, tvars>>

\* bulkUpdateTransactionStatus returns results and the tool writes its report
BulkReturns ==
    /\ spc = "loop"
    /\ sidx > Len(supdates)
    /\ sreport' = IF stool = "mark-transactions-cleared"
                  THEN ClearedReport(sargs.transactionIds, sresults)
                  ELSE ReconciledReport(supdates, sresults)
    /\ spc' = "done"
    /\ UNCHANGED <<stool, sargs, sledger, supdates, sidx, sresults, scalls>>
    /\ UNCHANGED <<mvars, rvars, tvars>>

StatusNext ==
    \/ MarkClearedStart
    \/ ReconcileToolFetchFails \/ ReconcileToolStart
    \/ UpdateStatusFails \/ UpdateStatus
    \/ BulkReturns

SpecStatus == StatusInit /\ [][StatusNext]_vars

----------------------------------------------------------------------------
(* Properties of bulkUpdateTransactionStatus and the status tools *)

\* the PUTs issued so far, in order
Puts == SelectSeq(scalls, LAMBDA c : c.op = "updateTransactionStatus")

OkPuts == {k \in 1..Len(Puts) : Puts[k].ok}
FailedPuts == {k \in 1..Len(Puts) : ~Puts[k].ok}

\* the n-th answered PUT
NthOkPut(n) == CHOOSE k \in OkPuts : Cardinality({j \in OkPuts : j <= k}) = n

\* C24: bulkUpdateTransactionStatus attempts every requested update, one after
\* another in request order; a failed update does not stop the later ones; the
\* returned list holds exactly the successful updates in request order, so
\* requested minus returned is the number of failed updates, which is what
\* mark-transactions-cleared reports.
C24_EveryUpdateAttempted ==
    /\ Len(Puts) = sidx - 1
    /\ Len(Puts) <= Len(supdates)
    /\ \A k \in 1..Len(Puts) :
          /\ Puts[k].transactionId = supdates[k].transactionId
          /\ Puts[k].cleared = supdates[k].cleared
          /\ Puts[k].approved = supdates[k].approved
    /\ Len(sresults) = Cardinality(OkPuts)
    /\ \A n \in 1..Len(sresults) :
          /\ sresults[n].id = Puts[NthOkPut(n)].transactionId
          /\ sresults[n].cleared = Puts[NthOkPut(n)].cleared
    /\ (spc = "done" /\ sreport.kind = "complete") =>
          /\ Len(Puts) = Len(supdates)
          /\ Len(supdates) - Len(sresults) = Cardinality(FailedPuts)
          /\ stool = "mark-transactions-cleared" =>
                /\ sreport.requested = Len(sargs.transactionIds)
                /\ sreport.updated = Cardinality(OkPuts)
                /\ sreport.failed = Cardinality(FailedPuts)

\* the first update failed and the second was still made, and succeeded
C24_Witness ==
    /\ spc = "done"
    /\ stool = "mark-transactions-cleared"
    /\ Len(Puts) = 2
    /\ ~Puts[1].ok /\ Puts[2].ok
    /\ sreport.failed = 1 /\ sreport.updated = 1

\* C25: a match has tier exact only if the bank payee and the ledger payee are
\* equal case-insensitively after trimming, the amounts are equal and the dates
\* are the same; two different payee strings never give tier exact.
C25_ExactOnlyForEqualPayees ==
    \A k \in 1..Len(matched) :
        matched[k].matchConfidence = "exact" =>
            LET b == matched[k].bankTransaction
                y == matched[k].ynabTransaction
            IN  /\ AmountEqual(b, y)
                /\ b.date = y.date
                /\ ~PayeeMissing(b.payee) /\ ~PayeeMissing(y.payee_name)
                /\ Normal(b.payee) = Normal(y.payee_name)

----------------------------------------------------------------------------
(* matchBankTransactions on a host that changes its clock *)

\* bank and ledger transactions on both sides of TransitionDay
ZoneBankCatalogue ==
    { [date |-> 4, amount |-> -450000, payee |-> Str(S_Acme)],
      [date |-> 6, amount |-> -450000, payee |-> Str(S_AcmeStore)] }

ZoneLedgerCatalogue ==
    { [date |-> 7, amount |-> -45000, payee_name |-> Str(S_AcmeStore)],
      [date |-> 3, amount |-> -45000, payee_name |-> Str(S_Acme)],
      [date |-> 8, amount |-> -45000, payee_name |-> Str(S_Empty)] }

HostZoneInit ==
    /\ bankTransactions \in SeqsUpTo(ZoneBankCatalogue, MaxBank)
    /\ bankAtCall = bankTransactions
    /\ tolerance \in Tolerances
    /\ hostZone \in HostZones
    /\ ledger \in {WithIds(l) : l \in SeqsUpTo(ZoneLedgerCatalogue, MaxLedger)}
    /\ pc = "start"
    /\ ynabTransactions = <<>>
    /\ sortedBankTransactions = <<>>
    /\ idx = 1
    /\ matched = <<>>
    /\ usedYnabIds = {}
    /\ unmatchedBank = <<>>
    /\ unmatchedYNAB = <<>>
    /\ summary = NoSummary
    /\ outcome = "none"
    /\ calls = <<>>
    /\ RIdle
    /\ TIdle
    /\ SIdle

SpecHostZone == HostZoneInit /\ [][MatchNext]_vars

\* C26: the date window applied to the fetched ledger transactions never
\* removes one that passes the date gate for some bank transaction: every
\* ledger transaction within tolerance days of at least one bank transaction
\* is in the candidate set.
C26_WindowKeepsDateGate ==
    Processing =>
        \A j \in 1..Len(ledger) :
            (\E i \in 1..Len(bankAtCall) : DayDistance(bankAtCall[i], ledger[j]) <= tolerance)
                => \E c \in 1..Len(ynabTransactions) : ynabTransactions[c] = ledger[j]

----------------------------------------------------------------------------
(* Frame of a fatal failure of reconcileAccountWithAdjustment *)

\* the invocation threw because its first getAccount or its
\* getAccountTransactions was rejected
FatalInitialFailure ==
    /\ rpc = "done"
    /\ result.kind = "threw"
    /\ \E i \in FailedCalls : i = 1 \/ rcalls[i].op = "getAccountTransactions"

\* C27: when a reconcile fails fatally because the initial account lookup or
\* the initial transaction fetch failed, no write was issued: no transaction
\* status has changed and no adjustment transaction exists.
C27_FatalStartWritesNothing ==
    FatalInitialFailure =>
        /\ UpdateCalls = {}
        /\ CreateCalls = {}
        /\ rledger = rledgerAtCall
        /\ CreatedAdjustments = {}
        /\ \A i \in 1..Len(rcalls) : rcalls[i].op \in {"getAccount", "getAccountTransactions"}

\* the transaction fetch was rejected for an account with transactions to mark
C27_Witness ==
    /\ FatalInitialFailure
    /\ Len(rcalls) = 2
    /\ DueIds # {}
    /\ rin.createAdjustment
    /\ RoundedTarget # PreMarkBalance

----------------------------------------------------------------------------
(* Two invocations of reconcileAccountWithAdjustment on one account, with the *)
(* same arguments and createAdjustment = true.  Every await is a point where  *)
(* the other invocation may run; the two share the remote ledger, which here  *)
(* applies every write it answers in full.                                    *)

Invocations == {1, 2}

Other(p) == 3 - p

SharedTxCatalogue ==
    { RTx(0, 1, 100000, "cleared", FALSE),
      RTx(0, 2, 18500, "uncleared", FALSE),
      RTx(0, 3, -500, "cleared", FALSE) }

\* An invocation that has not made its first call
NewInvocation ==
    [pc |-> "step1", loc |-> NoLocals, calls |-> <<>>, result |-> NoResult,
     ledgerAtStart |-> <<>>, afterOther |-> FALSE, readAfterCreate |-> FALSE]

\* invocation p makes the call c and goes on as v
Proceed(p, c, v) ==
    inv' = [inv EXCEPT ![p] = [v EXCEPT !.calls = Append(inv[p].calls, c)]]

\* the other invocation's createTransaction has been applied
OtherCreated(p) ==
    \E i \in 1..Len(inv[Other(p)].calls) :
        inv[Other(p)].calls[i].op = "createTransaction" /\ inv[Other(p)].calls[i].ok

TwoInit ==
    /\ rin \in [targetBalance : TargetBalances, reconciliationDate : ReconciliationDates,
                createAdjustment : {TRUE}, adjustmentMemo : {Null}]
    /\ rledger \in [txs : {RWithIds(l) : l \in SeqsUpTo(SharedTxCatalogue, MaxRTx)},
                    hasReconciliationPayee : BOOLEAN]
    /\ rledgerAtCall = rledger
    /\ inv = [p \in Invocations |-> NewInvocation]
    /\ rpc = "idle"
    /\ rloc = <<>>
    /\ rcalls = <<>>
    /\ result = <<>>
    /\ MIdle
    /\ SIdle

\* Steps 1, 2 and 4: a read is rejected and the outer catch rethrows
ReadFails(p) ==
    /\ inv[p].pc \in {"step1", "step2", "step4"}
    /\ Proceed(p, Call(IF inv[p].pc = "step2" THEN "getAccountTransactions" ELSE "getAccount",
                       FALSE),
               [inv[p] EXCEPT !.pc = "done", !.result = Thrown])
    /\ UNCHANGED <<rvars, mvars, svars>>

\* Step 1: startingBalance = account.balance
FirstGetAccount(p) ==
    /\ inv[p].pc = "step1"
    /\ Proceed(p, Call("getAccount", TRUE),
               [inv[p] EXCEPT !.pc = "step2",
                              !.loc.startingBalance = AccountBalance(rledger.txs),
                              !.ledgerAtStart = rledger.txs,
                              !.afterOther = (inv[Other(p)].pc = "done")])
    /\ UNCHANGED <<rvars, mvars, svars>>

\* Step 2: the fetch and the filter
FetchToReconcile(p) ==
    /\ inv[p].pc = "step2"
    /\ LET todo == transactionsToReconcile(AccountTransactions(rledger.txs),
                                           rin.reconciliationDate)
       IN  Proceed(p, Call("getAccountTransactions", TRUE),
                   [inv[p] EXCEPT !.pc = IF Len(todo) > 0 THEN "step3" ELSE "step4",
                                  !.loc.toReconcile = {todo[i].id : i \in 1..Len(todo)}])
    /\ UNCHANGED <<rvars, mvars, svars>>

\* Step 3: the batched update is rejected: a warning
BatchedMarkFails(p) ==
    /\ inv[p].pc = "step3"
    /\ Proceed(p, UpdateCall(FALSE, inv[p].loc.toReconcile, {}),
               [inv[p] EXCEPT !.pc = "step4",
                              !.loc.errors = Append(@, "Failed to update some transactions")])
    /\ UNCHANGED <<rvars, mvars, svars>>

BatchedMarkCleared(p) ==
    /\ inv[p].pc = "step3"
    /\ Proceed(p, UpdateCall(TRUE, inv[p].loc.toReconcile, inv[p].loc.toReconcile),
               [inv[p] EXCEPT !.pc = "step4",
                              !.loc.transactionsReconciled = Cardinality(inv[p].loc.toReconcile)])
    /\ rledger' = [rledger EXCEPT
                      !.txs = [i \in 1..Len(@) |->
                                  IF @[i].id \in inv[p].loc.toReconcile
                                  THEN [@[i] EXCEPT !.cleared = "cleared"] ELSE @[i]]]
    /\ UNCHANGED <<rpc, rin, rledgerAtCall, rloc, rcalls, result, mvars, svars>>

\* Step 3: the batched update is applied
BatchedMark(p) ==
    /\ inv[p].pc = "step3"
    /\ Proceed(p, UpdateCall(TRUE, inv[p].loc.toReconcile, inv[p].loc.toReconcile),
               [inv[p] EXCEPT !.pc = "step4",
                              !.loc.transactionsReconciled = Cardinality(inv[p].loc.toReconcile)])
    /\ rledger' = [rledger EXCEPT !.txs = ApplyReconciled(@, inv[p].loc.toReconcile)]
    /\ UNCHANGED <<rpc, rin, rledgerAtCall, rloc, rcalls, result, mvars, svars>>

SecondGetAccountStale(p) ==
    /\ inv[p].pc = "step4"
    /\ LET actualBalance == inv[p].loc.startingBalance
           adjustmentNeeded == TargetMilliunits(rin.targetBalance) - actualBalance
           loc == [inv[p].loc EXCEPT !.actualBalance = actualBalance,
                                     !.adjustmentNeeded = adjustmentNeeded]
       IN  Proceed(p, Call("getAccount", TRUE),
                   IF adjustmentNeeded # 0 /\ rin.createAdjustment
                   THEN [inv[p] EXCEPT !.pc = "step5", !.loc = loc,
                                       !.readAfterCreate = OtherCreated(p)]
                   ELSE [inv[p] EXCEPT !.pc = "done", !.loc = loc,
                                       !.readAfterCreate = OtherCreated(p),
                                       !.result = Returns(loc, rin)])
    /\ UNCHANGED <<rvars, mvars, svars>>

\* Step 4: actualBalance, adjustmentNeeded, and the return when nothing is to create
SecondGetAccount(p) ==
    /\ inv[p].pc = "step4"
    /\ LET actualBalance == AccountBalance(rledger.txs)
           adjustmentNeeded == TargetMilliunits(rin.targetBalance) - actualBalance
           loc == [inv[p].loc EXCEPT !.actualBalance = actualBalance,
                                     !.adjustmentNeeded = adjustmentNeeded]
       IN  Proceed(p, Call("getAccount", TRUE),
                   IF adjustmentNeeded # 0 /\ rin.createAdjustment
                   THEN [inv[p] EXCEPT !.pc = "step5", !.loc = loc,
                                       !.readAfterCreate = OtherCreated(p)]
                   ELSE [inv[p] EXCEPT !.pc = "done", !.loc = loc,
                                       !.readAfterCreate = OtherCreated(p),
                                       !.result = Returns(loc, rin)])
    /\ UNCHANGED <<rvars, mvars, svars>>

\* Step 5: getPayees or createTransaction is rejected: a warning, and the return
AdjustmentFails(p) ==
    /\ inv[p].pc \in {"step5", "create"}
    /\ LET loc == [inv[p].loc EXCEPT
                      !.errors = Append(@, "Failed to create adjustment transaction")]
           draft == adjustmentData(rin.reconciliationDate, loc.adjustmentNeeded, loc.payeeFound,
                                   rin.adjustmentMemo, rin.targetBalance)
       IN  Proceed(p, IF inv[p].pc = "step5" THEN Call("getPayees", FALSE)
                      ELSE CreateCall(FALSE, draft),
                   [inv[p] EXCEPT !.pc = "done", !.loc = loc, !.result = Returns(loc, rin)])
    /\ UNCHANGED <<rvars, mvars, svars>>

\* Step 5: the system payee is looked up
LookUpPayee(p) ==
    /\ inv[p].pc = "step5"
    /\ Proceed(p, Call("getPayees", TRUE),
               [inv[p] EXCEPT
                   !.pc = "create",
                   !.loc.payeeFound = rledger.hasReconciliationPayee,
                   !.loc.errors = IF rledger.hasReconciliationPayee THEN @
                                  ELSE Append(@, "System reconciliation payee not found. Using manual adjustment instead.")])
    /\ UNCHANGED <<rvars, mvars, svars>>

\* Step 5: the adjustment transaction is created, and the return
SubmitAdjustment(p) ==
    /\ inv[p].pc = "create"
    /\ LET loc == [inv[p].loc EXCEPT !.adjustmentCreated = TRUE]
           draft == adjustmentData(rin.reconciliationDate, loc.adjustmentNeeded, loc.payeeFound,
                                   rin.adjustmentMemo, rin.targetBalance)
       IN  /\ Proceed(p, CreateCall(TRUE, draft),
                      [inv[p] EXCEPT !.pc = "done", !.loc = loc, !.result = Returns(loc, rin)])
           /\ rledger' = [rledger EXCEPT !.txs = CreateInLedger(@, draft)]
    /\ UNCHANGED <<rpc, rin, rledgerAtCall, rloc, rcalls, result, mvars, svars>>

TwoNext ==
    \E p \in Invocations :
        \/ ReadFails(p)
        \/ FirstGetAccount(p) \/ FetchToReconcile(p)
        \/ BatchedMarkFails(p) \/ BatchedMark(p)
        \/ SecondGetAccount(p)
        \/ AdjustmentFails(p) \/ LookUpPayee(p) \/ SubmitAdjustment(p)

SpecTwoReconciles == TwoInit /\ [][TwoNext]_vars

----------------------------------------------------------------------------
(* Claims about two invocations *)

InvocationReturned(p) == inv[p].pc = "done" /\ inv[p].result.kind = "returned"

\* the invocation returned without a warning: every ledger call it made was answered
CleanRun(p) == InvocationReturned(p) /\ inv[p].result.errors = <<>>

\* the invocation made its first call after the other one had returned cleanly
RanSecond(p) == inv[p].afterOther /\ CleanRun(Other(p))

WritesOf(p) ==
    {i \in 1..Len(inv[p].calls) :
        inv[p].calls[i].op \in {"updateTransactions", "createTransaction"}}

\* C28: a reconcile that starts after a clean reconcile of the same account with
\* the same target and date has returned, with no other write in between, selects
\* no transaction to mark, makes no update and no create call, leaves the ledger
\* as it found it, and when it returns reports adjustment_needed = 0 and no
\* adjustment created.
C28_SecondRunChangesNothing ==
    \A p \in Invocations :
        RanSecond(p) /\ inv[p].pc # "step1" =>
            /\ inv[p].loc.toReconcile = {}
            /\ WritesOf(p) = {}
            /\ rledger.txs = inv[p].ledgerAtStart
            /\ InvocationReturned(p) =>
                   /\ inv[p].result.transactions_reconciled = 0
                   /\ inv[p].result.adjustment_needed = 0
                   /\ ~inv[p].result.adjustment_created

\* a second run has returned after a first run that marked a transaction and
\* created an adjustment
C28_Witness ==
    \E p \in Invocations :
        /\ RanSecond(p)
        /\ InvocationReturned(p)
        /\ inv[Other(p)].result.transactions_reconciled > 0
        /\ inv[Other(p)].result.adjustment_created

BothClean == \A p \in Invocations : CleanRun(p)

StartingBalance == AccountBalance(rledgerAtCall.txs)

AdjustmentsCreated == {p \in Invocations : inv[p].result.adjustment_created}

\* some invocation re-fetched the balance after the other's adjustment was created
ReadAfterCreate == \E p \in Invocations : inv[p].readAfterCreate

\* C29 as stated: after two interleaved invocations with the same target have
\* both returned without a warning, the ledger balance equals the target balance.
C29_BalanceIsTarget ==
    BothClean => AccountBalance(rledger.txs) = RoundedTarget

\* C29, amended: after both have returned without a warning, the balance equals
\* the target, with at most one adjustment created, when the balance started at
\* the target or one invocation re-fetched the balance after the other's
\* adjustment was created; otherwise both created the same adjustment and the
\* balance is twice the target minus the starting balance.
C29_TargetUnlessBothReadFirst ==
    BothClean =>
        IF ReadAfterCreate \/ StartingBalance = RoundedTarget
        THEN /\ AccountBalance(rledger.txs) = RoundedTarget
             /\ Cardinality(AdjustmentsCreated) <= 1
        ELSE /\ AccountBalance(rledger.txs) = 2 * RoundedTarget - StartingBalance
             /\ AdjustmentsCreated = Invocations
             /\ \A p \in Invocations :
                    inv[p].result.adjustment_needed = RoundedTarget - StartingBalance

\* both invocations re-fetched the balance before either created its adjustment,
\* and both have returned
C29_Witness ==
    /\ BothClean
    /\ ~ReadAfterCreate
    /\ AdjustmentsCreated = Invocations
    /\ AccountBalance(rledger.txs) # RoundedTarget

----------------------------------------------------------------------------
\* the place of a clearing status in the order uncleared -> cleared -> reconciled
StatusRank(cleared) ==
    CASE cleared = "uncleared" -> 0
      [] cleared = "cleared" -> 1
      [] cleared = "reconciled" -> 2

\* C30: no write of the status tools moves a transaction's clearing status
\* backward in the order uncleared -> cleared -> reconciled; in particular
\* mark-transactions-cleared never changes a reconciled transaction back to cleared.
C30_StatusNeverMovesBack ==
    [][\A i \in 1..Len(sledger) :
           StatusRank(sledger'[i].cleared) >= StatusRank(sledger[i].cleared)]_vars

====
